---- MODULE Spec2Model ----
(***************************************************************************)
(* LiquidBills: the recurring-bill series logic of src/App.tsx and the     *)
(* submission guard of src/components/EditModal.tsx, as a state machine    *)
(* over the remote table, the in-memory collection and the cached blob.    *)
(*                                                                         *)
(* Conventions.                                                            *)
(*  - A due date is the integer yyyymmdd of an instant at 00:00 UTC, as the *)
(*    date input and toISOString() give it.  The runtime's time zone has a *)
(*    fixed offset: at or east of UTC the local calendar day of such an    *)
(*    instant is the same day, west of UTC it is the day before.           *)
(*  - A name is a sequence of one-character strings, so that trim() and    *)
(*    toLowerCase() are computed, not assumed.                             *)
(*  - The optional fields frequency and seriesId hold Undefined (the key   *)
(*    is missing or undefined), Null (JSON null) or a positive number.     *)
(***************************************************************************)
EXTENDS Integers, Sequences, FiniteSets, TLC

\* ------------------------------------------------------------------------
\* State
\* ------------------------------------------------------------------------

VARIABLES
    remote,       \* the rows of the table 'bills'
    nextId,       \* the id the table gives the next inserted row
    nextSeries,   \* the value crypto.randomUUID() returns next
    bills,        \* useState<Bill[]>: the in-memory collection
    cache,        \* localStorage[CACHE_KEY]
    loading,      \* useState(true)
    isSyncing,    \* useState(false)
    syncSuccess,  \* useState(false)
    error,        \* useState<string | null>(null), "" for null
    alerts,       \* number of alert() calls so far
    mounted,      \* whether the startup effect has run
    boot,         \* the fetchBills call of the startup effect or of "retry"
    toggle,       \* the toggleBillPaid call in flight
    del,          \* the handleDeleteBill call in flight
    save,         \* the handleSaveBill call in flight
    formError,    \* the modal's error state after the last submission
    ops,          \* user operations started so far
    failures,     \* remote calls that have failed so far
    last,         \* the last user operation: what it was given and what it met
    xBill,        \* expansion on its own: the anchor
    xMode,        \* expansion on its own: "none", "create" or "regenerate"
    xPayload,     \* expansion on its own: the payload built
    fExisting,    \* form on its own: the prop existingBills
    fInitial,     \* form on its own: the prop initialBill
    fFields,      \* form on its own: the fields at the submission
    fResult,      \* form on its own: "none", then what handleSubmit did
    fSaved,       \* form on its own: the bill given to onSave, if any
    zone,         \* the runtime's time zone: "east" (of or at UTC) or "west"
    configured,   \* what the client module exports as isSupabaseConfigured
    cacheRun      \* cache on its own: the blob, what was loaded, what was there

sysVars ==
    <<remote, nextId, nextSeries, bills, cache, loading, isSyncing, syncSuccess,
      error, alerts, mounted, boot, toggle, del, save, formError, ops, failures,
      last>>

expVars == <<xBill, xMode, xPayload>>

formVars == <<fExisting, fInitial, fFields, fResult, fSaved>>

envVars == <<zone, configured>>

cacheVars == <<cacheRun>>

vars == <<sysVars, expVars, formVars, envVars, cacheVars>>

\* ------------------------------------------------------------------------
\* Optional values
\* ------------------------------------------------------------------------

Undefined == -1

Null == 0

\* JavaScript's  x || y  on an optional number
OrElse(x, y) == IF x = Undefined \/ x = Null THEN y ELSE x

\* BillFrequency of src/types.ts
MONTHLY == 1

QUARTERLY == 3

SEMIANNUAL == 6

ANNUAL == 12

BillFrequency == {MONTHLY, QUARTERLY, SEMIANNUAL, ANNUAL}

\* the literal 12 of  Math.ceil(12 / freq)
HorizonMonths == 12

\* ------------------------------------------------------------------------
\* Calendar
\* ------------------------------------------------------------------------

MkDate(y, m, d) == y * 10000 + m * 100 + d

YearOf(date) == date \div 10000

MonthOf(date) == (date \div 100) % 100

DayOf(date) == date % 100

IsLeap(y) == (y % 4 = 0 /\ y % 100 # 0) \/ y % 400 = 0

DaysInMonth(y, m) ==
    IF m = 2 THEN (IF IsLeap(y) THEN 29 ELSE 28)
    ELSE IF m \in {4, 6, 9, 11} THEN 30 ELSE 31

\* months since year 0, to measure the distance in calendar months
MonthIndex(date) == YearOf(date) * 12 + (MonthOf(date) - 1)

PrevDay(date) ==
    IF DayOf(date) > 1 THEN date - 1
    ELSE IF MonthOf(date) > 1
         THEN MkDate(YearOf(date), MonthOf(date) - 1,
                     DaysInMonth(YearOf(date), MonthOf(date) - 1))
    ELSE MkDate(YearOf(date) - 1, 12, 31)

NextDay(date) ==
    IF DayOf(date) < DaysInMonth(YearOf(date), MonthOf(date)) THEN date + 1
    ELSE IF MonthOf(date) < 12 THEN MkDate(YearOf(date), MonthOf(date) + 1, 1)
    ELSE MkDate(YearOf(date) + 1, 1, 1)

Zones == {"east", "west"}

\* new Date(text): the local calendar day of the instant 00:00 UTC of date
LocalDay(date) == IF zone = "west" THEN PrevDay(date) ELSE date

\* toISOString(): the UTC day of a Date whose local day is localDay and whose
\* local time is that of an instant at 00:00 UTC
UTCDay(localDay) == IF zone = "west" THEN NextDay(localDay) ELSE localDay

\* Date.prototype.getMonth, 1-based
getMonth(date) == MonthOf(LocalDay(date))

\* Date.prototype.getFullYear
getFullYear(date) == YearOf(LocalDay(date))

\* Date.prototype.setMonth on the local fields: the month index is normalised
\* into the year, the day of the month is kept, and a day that the target
\* month does not have runs over into the next month.
SetMonthLocal(date, k) ==
    LET m0  == MonthOf(date) - 1 + k
        y   == YearOf(date) + (m0 \div 12)
        m   == (m0 % 12) + 1
        dim == DaysInMonth(y, m)
        d   == DayOf(date)
    IN  IF d <= dim THEN MkDate(y, m, d)
        ELSE IF m = 12 THEN MkDate(y + 1, 1, d - dim)
        ELSE MkDate(y, m + 1, d - dim)

\* nextDate = new Date(startDate);
\* nextDate.setMonth(startDate.getMonth() + k); nextDate.toISOString()
SetMonth(date, k) == UTCDay(SetMonthLocal(LocalDay(date), k))

\* ------------------------------------------------------------------------
\* Names
\* ------------------------------------------------------------------------

\* String.prototype.toLowerCase on one character of the alphabet in use
LowerChar(c) ==
    CASE c = "N" -> "n"
      [] c = "G" -> "g"
      [] OTHER   -> c

ToLowerCase(s) == [i \in 1..Len(s) |-> LowerChar(s[i])]

RECURSIVE TrimStart(_)
TrimStart(s) ==
    IF s # <<>> /\ Head(s) = " " THEN TrimStart(Tail(s)) ELSE s

RECURSIVE TrimEnd(_)
TrimEnd(s) ==
    IF s # <<>> /\ s[Len(s)] = " " THEN TrimEnd(SubSeq(s, 1, Len(s) - 1)) ELSE s

\* String.prototype.trim
Trim(s) == TrimEnd(TrimStart(s))

\* ------------------------------------------------------------------------
\* Bills and rows
\* ------------------------------------------------------------------------

\* key order of the object literal of fetchBills' row mapping
RowKeys ==
    <<"id", "name", "amount", "dueDate", "isPaid", "isRecurring",
      "frequency", "category", "seriesId">>

\* key order of the object literal billData of handleSubmit
FormKeys ==
    <<"id", "name", "amount", "category", "dueDate", "isRecurring",
      "frequency", "isPaid", "seriesId">>

\* the id '' of a bill built by the form for a new bill
NoId == 0

\* const preparePayload = (b: Bill) => ({...}): the wire payload of a bill.
\* An undefined frequency is left out of the request body by JSON encoding.
preparePayload(b) ==
    [name         |-> b.name,
     amount       |-> b.amount,
     due_date     |-> b.dueDate,
     is_paid      |-> b.isPaid,
     is_recurring |-> b.isRecurring,
     frequency    |-> b.frequency,
     category     |-> b.category,
     series_id    |-> OrElse(b.seriesId, Null)]

\* the row the table stores for a payload: a column the request body leaves
\* out takes the column's default, null
StoredRow(p, id) ==
    [id           |-> id,
     name         |-> p.name,
     amount       |-> p.amount,
     due_date     |-> p.due_date,
     is_paid      |-> p.is_paid,
     is_recurring |-> p.is_recurring,
     frequency    |-> IF p.frequency = Undefined THEN Null ELSE p.frequency,
     category     |-> p.category,
     series_id    |-> p.series_id]

\* Variant of FormatBill from before the column frequency: the mapping does
\* not read it.
FormatBillNoFrequency(item) ==
    [id          |-> item.id,
     name        |-> item.name,
     amount      |-> item.amount,
     dueDate     |-> item.due_date,
     isPaid      |-> item.is_paid,
     isRecurring |-> item.is_recurring,
     frequency   |-> Undefined,
     category    |-> item.category,
     seriesId    |-> item.series_id,
     keys        |-> RowKeys]

\* (data || []).map((item: any) => ({...})) of fetchBills
FormatBill(item) ==
    [id          |-> item.id,
     name        |-> item.name,
     amount      |-> item.amount,
     dueDate     |-> item.due_date,
     isPaid      |-> item.is_paid,
     isRecurring |-> item.is_recurring,
     frequency   |-> item.frequency,
     category    |-> item.category,
     seriesId    |-> item.series_id,
     keys        |-> RowKeys]

\* ------------------------------------------------------------------------
\* Series expansion (the two loops of handleSaveBill)
\* ------------------------------------------------------------------------

\* const freq = billData.frequency || BillFrequency.MONTHLY
FreqOf(billData) == OrElse(billData.frequency, MONTHLY)

\* Math.ceil(12 / freq)
CeilHorizon(freq) == (HorizonMonths + freq - 1) \div freq

\* Variant of CreateCount without the + 1 that makes room for the anchor.
CreateCountNoAnchor(freq) == CeilHorizon(freq)

\* const count = Math.ceil(12 / freq) + 1  (creation)
CreateCount(freq) == CeilHorizon(freq) + 1

\* const count = Math.ceil(12 / freq)  (regeneration)
RegenerateCount(freq) == CeilHorizon(freq)

\* Variant of CreateIsPaid with the test on i dropped: every occurrence takes
\* the anchor's value.
CreateIsPaidInherit(billData, i) == billData.isPaid

\* is_paid: i === 0 ? billData.isPaid : false
CreateIsPaid(billData, i) == IF i = 0 THEN billData.isPaid ELSE FALSE

\* for (let i = 0; i < count; i++) { ... newBillsPayload.push({...}) }
CreateSeriesPayload(billData, seriesId) ==
    LET freq  == FreqOf(billData)
        count == CreateCount(freq)
        base  == preparePayload([billData EXCEPT !.seriesId = seriesId])
    IN  [n \in 1..count |->
            [base EXCEPT !.due_date = SetMonth(billData.dueDate, (n - 1) * freq),
                         !.is_paid  = CreateIsPaid(billData, n - 1)]]

\* for (let i = 1; i <= count; i++) { ... newBillsPayload.push({...}) }
RegeneratePayload(billData, seriesId) ==
    LET freq  == FreqOf(billData)
        count == RegenerateCount(freq)
        base  == preparePayload([billData EXCEPT !.seriesId = seriesId])
    IN  [n \in 1..count |->
            [base EXCEPT !.due_date = SetMonth(billData.dueDate, n * freq),
                         !.is_paid  = FALSE]]

\* ------------------------------------------------------------------------
\* The cached blob
\* ------------------------------------------------------------------------

\* whether JSON.stringify writes key k of bill b: a key whose value is
\* undefined is left out
KeyWritten(b, k) ==
    IF k = "frequency" THEN b.frequency # Undefined
    ELSE IF k = "seriesId" THEN b.seriesId # Undefined
    ELSE TRUE

\* the value of the property k of the bill b
FieldOf(b, k) ==
    CASE k = "id"          -> b.id
      [] k = "name"        -> b.name
      [] k = "amount"      -> b.amount
      [] k = "dueDate"     -> b.dueDate
      [] k = "isPaid"      -> b.isPaid
      [] k = "isRecurring" -> b.isRecurring
      [] k = "frequency"   -> b.frequency
      [] k = "category"    -> b.category
      [] k = "seriesId"    -> b.seriesId

\* the JSON text of one bill: its written keys, in the object's key order,
\* each with its value
StringifyBill(b) ==
    LET ks == SelectSeq(b.keys, LAMBDA k : KeyWritten(b, k))
    IN  [i \in 1..Len(ks) |-> [key |-> ks[i], value |-> FieldOf(b, ks[i])]]

\* JSON.stringify(collection)
Stringify(bs) == [i \in 1..Len(bs) |-> StringifyBill(bs[i])]

\* the value the object text obj gives the property k: a key the text does
\* not hold reads as undefined
ReadKey(obj, k) ==
    IF \E i \in 1..Len(obj) : obj[i].key = k
    THEN obj[CHOOSE i \in 1..Len(obj) : obj[i].key = k].value
    ELSE Undefined

\* Variant of ParseBill that builds the object with its keys in the order of
\* the row mapping, whatever the order of the text.
ParseBillRowOrder(obj) ==
    [id          |-> ReadKey(obj, "id"),
     name        |-> ReadKey(obj, "name"),
     amount      |-> ReadKey(obj, "amount"),
     dueDate     |-> ReadKey(obj, "dueDate"),
     isPaid      |-> ReadKey(obj, "isPaid"),
     isRecurring |-> ReadKey(obj, "isRecurring"),
     frequency   |-> ReadKey(obj, "frequency"),
     category    |-> ReadKey(obj, "category"),
     seriesId    |-> ReadKey(obj, "seriesId"),
     keys        |-> SelectSeq(RowKeys,
                        LAMBDA k : \E i \in 1..Len(obj) : obj[i].key = k)]

\* JSON.parse of one object text: its keys in the text's order
ParseBill(obj) ==
    [id          |-> ReadKey(obj, "id"),
     name        |-> ReadKey(obj, "name"),
     amount      |-> ReadKey(obj, "amount"),
     dueDate     |-> ReadKey(obj, "dueDate"),
     isPaid      |-> ReadKey(obj, "isPaid"),
     isRecurring |-> ReadKey(obj, "isRecurring"),
     frequency   |-> ReadKey(obj, "frequency"),
     category    |-> ReadKey(obj, "category"),
     seriesId    |-> ReadKey(obj, "seriesId"),
     keys        |-> [i \in 1..Len(obj) |-> obj[i].key]]

\* JSON.parse(text)
Parse(blob) == [i \in 1..Len(blob) |-> ParseBill(blob[i])]

\* localStorage.getItem(CACHE_KEY) === null
NoCache == [present |-> FALSE, blob |-> <<>>]

\* Variant of CacheOf that writes the collection without its last bill.
CacheOfAllButLast(bs) ==
    [present |-> TRUE,
     blob |-> Stringify(IF bs = <<>> THEN bs ELSE SubSeq(bs, 1, Len(bs) - 1))]

\* localStorage.setItem(CACHE_KEY, JSON.stringify(collection))
CacheOf(bs) == [present |-> TRUE, blob |-> Stringify(bs)]

\* ------------------------------------------------------------------------
\* The edit form (EditModal.tsx)
\* ------------------------------------------------------------------------

\* the empty text '' of the date input
NoDate == 0

\* initialBill === null
NoBill == [id |-> NoId]

\* parseFloat(amount) on the amount texts in use; it is applied only to a
\* text that passed  !amount
ParseFloat(text) ==
    CASE text = "10" -> 10
      [] text = "20" -> 20
      [] OTHER       -> 0

\* validateDuplicate(checkName, checkDateStr)
validateDuplicate(existingBills, initialBill, checkName, checkDate) ==
    \E i \in 1..Len(existingBills) :
        LET b == existingBills[i] IN
        /\ ~(initialBill.id # NoId /\ b.id = initialBill.id)
        /\ getMonth(b.dueDate) = getMonth(checkDate)
        /\ getFullYear(b.dueDate) = getFullYear(checkDate)
        /\ ToLowerCase(Trim(b.name)) = ToLowerCase(Trim(checkName))

\* if (!name || !amount || !date)
FieldsMissing(f) == f.name = <<>> \/ f.amount = "" \/ f.date = NoDate

\* what handleSubmit does with the fields f: "empty" and "duplicate" are its
\* two early returns with setError, "save" is the call of onSave
SubmitOutcome(existingBills, initialBill, f) ==
    IF FieldsMissing(f) THEN "empty"
    ELSE IF validateDuplicate(existingBills, initialBill, f.name, f.date)
         THEN "duplicate"
    ELSE "save"

\* const billData: Bill = {...} of handleSubmit
BillData(initialBill, f) ==
    [id          |-> IF initialBill.id # NoId THEN initialBill.id ELSE NoId,
     name        |-> Trim(f.name),
     amount      |-> ParseFloat(f.amount),
     category    |-> f.category,
     dueDate     |-> f.date,
     isRecurring |-> f.isRecurring,
     frequency   |-> IF f.isRecurring THEN f.frequency ELSE Undefined,
     isPaid      |-> f.isPaid,
     seriesId    |-> IF initialBill.id # NoId THEN initialBill.seriesId
                     ELSE Undefined,
     keys        |-> FormKeys]

\* whether handleSubmit asks "update the future bills of this series too?"
AsksUpdateFuture(initialBill, f) ==
    /\ initialBill.id # NoId
    /\ OrElse(initialBill.seriesId, Null) # Null
    /\ initialBill.isRecurring
    /\ (initialBill.amount # ParseFloat(f.amount) \/ initialBill.name # f.name)

\* ------------------------------------------------------------------------
\* Bounds and input sets
\* ------------------------------------------------------------------------

\* user operations (toggle, delete, form submission) in one run
MaxOps == 2

\* remote calls that fail in one run
MaxFailures == 1

\* the due dates the user types
FormDates == {20240105, 20240120, 20240705}

\* the names the user types
FormNames == {<<"N">>, <<"g">>}

\* the amounts the user types
FormAmounts == {"10", "20"}

\* the frequencies the user picks in the running system
FormFrequencies == {SEMIANNUAL, ANNUAL}

\* BillCategory.OTHER, the form's default category
OTHER_CATEGORY == "Inne"

\* the flag the handlers import from the client module:
\* export const isSupabaseConfigured = true  in src/supabaseClient.ts, the
\* value in every run of the application as it is built
isSupabaseConfigured == configured

\* ------------------------------------------------------------------------
\* The remote table
\* ------------------------------------------------------------------------

MinDate(rows) == CHOOSE d \in {r.due_date : r \in rows} :
                    \A r \in rows : d <= r.due_date

\* .select('*').order('due_date', { ascending: true }): every order of the
\* rows that ascends in due_date (rows of one date come in any order)
RECURSIVE SortedSeqs(_)
SortedSeqs(rows) ==
    IF rows = {} THEN {<<>>}
    ELSE UNION {{<<r>> \o t : t \in SortedSeqs(rows \ {r})} :
                r \in {x \in rows : x.due_date = MinDate(rows)}}

\* .insert(payloads): the rows get the next ids, in payload order
InsertedRows(payloads, firstId) ==
    {StoredRow(payloads[n], firstId + n - 1) : n \in 1..Len(payloads)}

\* .update(payload).eq('id', id): the columns of the request body are written;
\* an undefined frequency is not in the body, so that column keeps its value
UpdatedRow(r, p) ==
    [StoredRow(p, r.id) EXCEPT
        !.frequency = IF p.frequency = Undefined THEN r.frequency
                      ELSE p.frequency]

UpdateById(rows, id, p) ==
    {IF r.id = id THEN UpdatedRow(r, p) ELSE r : r \in rows}

\* Variant of DeleteSeriesAfter with a filter that is not strict (gte): the
\* row due on the date itself is removed as well.
DeleteSeriesFrom(rows, s, date) ==
    {r \in rows : ~(r.series_id = s /\ r.due_date >= date)}

\* .delete().eq('series_id', s).gt('due_date', date)
DeleteSeriesAfter(rows, s, date) ==
    {r \in rows : ~(r.series_id = s /\ r.due_date > date)}

\* Variant of DeleteLegacyAfter that spares the rows of a series.
DeleteLegacyUnlinkedAfter(rows, n, a, date) ==
    {r \in rows : ~(r.name = n /\ r.amount = a /\ r.due_date > date
                     /\ r.series_id = Null)}

\* .delete().eq('name', n).eq('amount', a).gt('due_date', date)
DeleteLegacyAfter(rows, n, a, date) ==
    {r \in rows : ~(r.name = n /\ r.amount = a /\ r.due_date > date)}

\* ------------------------------------------------------------------------
\* Initial state
\* ------------------------------------------------------------------------

NoCall == [pc |-> "idle"]

\* the seriesId of a series that exists when the application starts
OriginalSeries == 1

\* the value crypto.randomUUID() returns first
MintedSeries == 2

NoOp == [kind |-> "none", st |-> "done"]

\* a series as an earlier session created it (a form submission for a new
\* recurring bill "N", 10, semiannual, from 2024-01-05)
EarlierSeries ==
    InsertedRows(
        CreateSeriesPayload(
            [id |-> NoId, name |-> <<"N">>, amount |-> 10,
             category |-> OTHER_CATEGORY, dueDate |-> 20240105,
             isRecurring |-> TRUE, frequency |-> SEMIANNUAL, isPaid |-> FALSE,
             seriesId |-> Undefined, keys |-> FormKeys], OriginalSeries), 1)

\* the tables the application starts on
InitialStores == {{}, EarlierSeries}

MaxRowId(rows) == IF rows = {} THEN 0
                  ELSE CHOOSE m \in {r.id : r \in rows} :
                          \A r \in rows : r.id <= m

FetchedBills(data) == [i \in 1..Len(data) |-> FormatBill(data[i])]

InitSys ==
    /\ remote \in InitialStores
    /\ nextId = MaxRowId(remote) + 1
    /\ nextSeries = MintedSeries
    /\ bills = <<>>
    /\ cache \in {NoCache} \cup
                 {CacheOf(FetchedBills(d)) : d \in SortedSeqs(remote)}
    /\ loading = TRUE
    /\ isSyncing = FALSE
    /\ syncSuccess = FALSE
    /\ error = ""
    /\ alerts = 0
    /\ mounted = FALSE
    /\ boot = NoCall
    /\ toggle = NoCall
    /\ del = NoCall
    /\ save = NoCall
    /\ formError = ""
    /\ ops = 0
    /\ failures = 0
    /\ last = NoOp

InitExpNone ==
    /\ xBill = NoBill
    /\ xMode = "none"
    /\ xPayload = <<>>

InitFormNone ==
    /\ fExisting = <<>>
    /\ fInitial = NoBill
    /\ fFields = <<>>
    /\ fResult = "none"
    /\ fSaved = NoBill

\* The due dates of this specification keep clear of the ends of the months,
\* where alone the zones differ.
\* the cache taken on its own is not run
NoCacheRun ==
    [blob |-> <<>>, loaded |-> <<>>, prevBlob |-> <<>>, prevLoaded |-> <<>>,
     loads |-> 0, saves |-> 0]

Init ==
    /\ zone = "east" /\ cacheRun = NoCacheRun
    /\ configured = TRUE
    /\ InitSys /\ InitExpNone /\ InitFormNone

\* ------------------------------------------------------------------------
\* fetchBills
\* ------------------------------------------------------------------------

MsgConfig == "Brak konfiguracji bazy danych."

MsgNetwork == "Problem z polaczeniem internetowym."

MsgOther == "Nie udalo sie pobrac danych."

\* the two kinds of failure the catch block tells apart by err.message
FailureKinds == {"network", "other"}

\* Variant of FetchDiffers with the comparison turned round (=== for !==).
FetchDiffersInverted(fb) == cache = CacheOf(fb)

\* if (currentCache !== newCache)
FetchDiffers(fb) == cache # CacheOf(fb)

\* Variant of ErrorAfterCatch without the test for "MISSING_CONFIG": the
\* error is told apart by the words of its message only.
ErrorAfterCatchByWords(kind, closureBills) ==
    IF kind = "network"
    THEN (IF Len(closureBills) = 0 THEN MsgNetwork ELSE "")
    ELSE MsgOther

\* the error state after the catch block, for a call whose closure holds the
\* collection closureBills
ErrorAfterCatch(kind, closureBills) ==
    IF kind = "MISSING_CONFIG" THEN MsgConfig
    ELSE IF kind = "network"
         THEN (IF Len(closureBills) = 0 THEN MsgNetwork ELSE "")
    ELSE MsgOther

\* The startup effect: loadFromCache(), then fetchBills(hasCache) up to its
\* await.  The effect's closure is the first render's, where bills is [].
Mount ==
    /\ ~mounted
    /\ mounted' = TRUE
    /\ bills' = IF cache.present THEN Parse(cache.blob) ELSE bills
    /\ loading' = IF cache.present THEN FALSE ELSE TRUE
    /\ isSyncing' = TRUE
    /\ error' = ""
    /\ boot' = IF isSupabaseConfigured
               THEN [pc |-> "select", closure |-> <<>>,
                     isBackgroundRefresh |-> cache.present]
               ELSE [pc |-> "throw", closure |-> <<>>, kind |-> "MISSING_CONFIG",
                     isBackgroundRefresh |-> cache.present]
    /\ UNCHANGED <<remote, nextId, nextSeries, cache, syncSuccess, alerts,
                   toggle, del, save, formError, ops, last>>
    /\ UNCHANGED <<failures, expVars, formVars, envVars, cacheVars>>

\* The button of the full-screen error state: fetchBills()
Retry ==
    /\ mounted /\ boot.pc = "idle"
    /\ ~loading /\ error # "" /\ Len(bills) = 0
    /\ loading' = TRUE
    /\ isSyncing' = TRUE
    /\ error' = ""
    /\ boot' = IF isSupabaseConfigured
               THEN [pc |-> "select", closure |-> bills,
                     isBackgroundRefresh |-> FALSE]
               ELSE [pc |-> "throw", closure |-> bills, kind |-> "MISSING_CONFIG",
                     isBackgroundRefresh |-> FALSE]
    /\ last' = [kind |-> "retry", st |-> "done"]
    /\ UNCHANGED <<remote, nextId, nextSeries, bills, cache, syncSuccess, alerts,
                   mounted, toggle, del, save, formError, ops>>
    /\ UNCHANGED <<failures, expVars, formVars, envVars, cacheVars>>

\* the table answers the select
BootServe ==
    /\ boot.pc = "select"
    /\ \E data \in SortedSeqs(remote) :
          boot' = [pc |-> "reply", closure |-> boot.closure, data |-> data,
                   isBackgroundRefresh |-> boot.isBackgroundRefresh]
    /\ UNCHANGED <<remote, nextId, nextSeries, bills, cache, loading, isSyncing,
                   syncSuccess, error, alerts, mounted, toggle, del, save,
                   formError, ops, last>>
    /\ UNCHANGED <<failures, expVars, formVars, envVars, cacheVars>>

\* the select fails
BootFail ==
    /\ failures < MaxFailures
    /\ failures' = failures + 1
    /\ boot.pc = "select"
    /\ \E kind \in FailureKinds :
          boot' = [pc |-> "throw", closure |-> boot.closure, kind |-> kind,
                   isBackgroundRefresh |-> boot.isBackgroundRefresh]
    /\ UNCHANGED <<remote, nextId, nextSeries, bills, cache, loading, isSyncing,
                   syncSuccess, error, alerts, mounted, toggle, del, save,
                   formError, ops, last>>
    /\ UNCHANGED <<expVars, formVars, envVars, cacheVars>>

\* the rest of the try block, and finally
BootDeliver ==
    /\ boot.pc = "reply"
    /\ LET fb == FetchedBills(boot.data) IN
         /\ bills' = IF FetchDiffers(fb) THEN fb ELSE bills
         /\ cache' = IF FetchDiffers(fb) THEN CacheOf(fb) ELSE cache
    /\ syncSuccess' = TRUE
    /\ loading' = FALSE
    /\ isSyncing' = FALSE
    /\ boot' = NoCall
    /\ UNCHANGED <<remote, nextId, nextSeries, error, alerts, mounted, toggle,
                   del, save, formError, ops, last>>
    /\ UNCHANGED <<failures, expVars, formVars, envVars, cacheVars>>

\* the catch block, and finally
BootCatch ==
    /\ boot.pc = "throw"
    /\ syncSuccess' = FALSE
    /\ error' = LET e == ErrorAfterCatch(boot.kind, boot.closure)
                IN IF e = "" THEN error ELSE e
    /\ loading' = FALSE
    /\ isSyncing' = FALSE
    /\ boot' = NoCall
    /\ UNCHANGED <<remote, nextId, nextSeries, bills, cache, alerts, mounted,
                   toggle, del, save, formError, ops, last>>
    /\ UNCHANGED <<failures, expVars, formVars, envVars, cacheVars>>

\* ------------------------------------------------------------------------
\* toggleBillPaid and handleDeleteBill
\* ------------------------------------------------------------------------

HasId(bs, id) == \E i \in 1..Len(bs) : bs[i].id = id

\* bills.find(b => b.id === id), for an id the collection holds
FindBill(bs, id) == bs[CHOOSE i \in 1..Len(bs) :
                          bs[i].id = id /\ \A j \in 1..(i - 1) : bs[j].id # id]

\* Variant of SetPaid that is aware of series: the siblings of the bill are
\* given the value too.
SetPaidInSeries(bs, id, v) ==
    [i \in 1..Len(bs) |->
        IF \E j \in 1..Len(bs) :
              /\ bs[j].id = id
              /\ (i = j \/ (bs[j].seriesId = bs[i].seriesId /\ bs[j].seriesId > 0))
        THEN [bs[i] EXCEPT !.isPaid = v] ELSE bs[i]]

\* bills.map(bill => bill.id === id ? { ...bill, isPaid: v } : bill)
SetPaid(bs, id, v) ==
    [i \in 1..Len(bs) |->
        IF bs[i].id = id THEN [bs[i] EXCEPT !.isPaid = v] ELSE bs[i]]

\* bills.filter(b => b.id !== id)
WithoutId(bs, id) == SelectSeq(bs, LAMBDA b : b.id # id)

\* Variant of RevertedBills that maps to newStatus, not to !newStatus.
RevertedBillsNotNegated(closureBills, id, newStatus) ==
    SetPaid(closureBills, id, newStatus)

\* bills.map(bill => bill.id === id ? { ...bill, isPaid: !newStatus } : bill)
RevertedBills(closureBills, id, newStatus) ==
    SetPaid(closureBills, id, ~newStatus)

\* Variant of RestoredBills that restores the collection without the bill.
RestoredBillsWithout(previousBills, id) == WithoutId(previousBills, id)

\* setBills(previousBills) of the catch block of handleDeleteBill
RestoredBills(previousBills, id) == previousBills

\* what a user operation finds when it starts
Snapshot ==
    [bills |-> bills, cache |-> cache, remote |-> remote, alerts |-> alerts]

\* the user may act: the startup effect has run and the interface is shown
CanAct == mounted /\ ops < MaxOps

\* toggleBillPaid(id) up to its await
ToggleStart(id) ==
    /\ CanAct /\ toggle.pc = "idle"
    /\ isSupabaseConfigured
    /\ HasId(bills, id)
    /\ LET newStatus    == ~FindBill(bills, id).isPaid
           updatedBills == SetPaid(bills, id, newStatus)
       IN  /\ bills' = updatedBills
           /\ cache' = CacheOf(updatedBills)
           /\ toggle' = [pc |-> "update", id |-> id, newStatus |-> newStatus,
                         closure |-> bills]
    /\ ops' = ops + 1
    /\ last' = [kind |-> "toggle", st |-> "pending", id |-> id,
                pre |-> Snapshot]
    /\ UNCHANGED <<remote, nextId, nextSeries, loading, isSyncing, syncSuccess,
                   error, alerts, mounted, boot, del, save, formError>>
    /\ UNCHANGED <<failures, expVars, formVars, envVars, cacheVars>>

\* toggleBillPaid(id) for an id the collection does not hold:
\* if (!billToUpdate) return
ToggleAbsent(id) ==
    /\ CanAct /\ toggle.pc = "idle"
    /\ isSupabaseConfigured
    /\ ~HasId(bills, id)
    /\ ops' = ops + 1
    /\ last' = [kind |-> "toggle", st |-> "absent", id |-> id,
                pre |-> Snapshot]
    /\ UNCHANGED <<remote, nextId, nextSeries, bills, cache, loading,
                   isSyncing, syncSuccess, error, alerts, mounted, boot,
                   toggle, del, save, formError>>
    /\ UNCHANGED <<failures, expVars, formVars, envVars, cacheVars>>

\* .update({ is_paid: newStatus }).eq('id', id) succeeds
ToggleOk ==
    /\ toggle.pc = "update"
    /\ remote' = {IF r.id = toggle.id
                  THEN [r EXCEPT !.is_paid = toggle.newStatus] ELSE r :
                  r \in remote}
    /\ syncSuccess' = TRUE
    /\ toggle' = NoCall
    /\ last' = IF last.kind = "toggle" THEN [last EXCEPT !.st = "ok"] ELSE last
    /\ UNCHANGED <<nextId, nextSeries, bills, cache, loading, isSyncing, error,
                   alerts, mounted, boot, del, save, formError, ops>>
    /\ UNCHANGED <<failures, expVars, formVars, envVars, cacheVars>>

\* the update fails: the catch block
ToggleFail ==
    /\ failures < MaxFailures
    /\ failures' = failures + 1
    /\ toggle.pc = "update"
    /\ LET revertedBills == RevertedBills(toggle.closure, toggle.id,
                                          toggle.newStatus)
       IN  /\ bills' = revertedBills
           /\ cache' = CacheOf(revertedBills)
    /\ syncSuccess' = FALSE
    /\ alerts' = alerts + 1
    /\ toggle' = NoCall
    /\ last' = IF last.kind = "toggle" THEN [last EXCEPT !.st = "failed"] ELSE last
    /\ UNCHANGED <<remote, nextId, nextSeries, loading, isSyncing, error,
                   mounted, boot, del, save, formError, ops>>
    /\ UNCHANGED <<expVars, formVars, envVars, cacheVars>>

\* handleDeleteBill(id) up to its await
DeleteStart(id) ==
    /\ CanAct /\ del.pc = "idle"
    /\ isSupabaseConfigured
    /\ HasId(bills, id)
    /\ LET newBills == WithoutId(bills, id)
       IN  /\ bills' = newBills
           /\ cache' = CacheOf(newBills)
    /\ del' = [pc |-> "delete", id |-> id, previousBills |-> bills]
    /\ ops' = ops + 1
    /\ last' = [kind |-> "delete", st |-> "pending", id |-> id,
                pre |-> Snapshot]
    /\ UNCHANGED <<remote, nextId, nextSeries, loading, isSyncing, syncSuccess,
                   error, alerts, mounted, boot, toggle, save, formError>>
    /\ UNCHANGED <<failures, expVars, formVars, envVars, cacheVars>>

\* .delete().eq('id', id) succeeds
DeleteOk ==
    /\ del.pc = "delete"
    /\ remote' = {r \in remote : r.id # del.id}
    /\ syncSuccess' = TRUE
    /\ del' = NoCall
    /\ last' = IF last.kind = "delete" THEN [last EXCEPT !.st = "ok"] ELSE last
    /\ UNCHANGED <<nextId, nextSeries, bills, cache, loading, isSyncing, error,
                   alerts, mounted, boot, toggle, save, formError, ops>>
    /\ UNCHANGED <<failures, expVars, formVars, envVars, cacheVars>>

\* the delete fails: the catch block
DeleteFail ==
    /\ failures < MaxFailures
    /\ failures' = failures + 1
    /\ del.pc = "delete"
    /\ bills' = RestoredBills(del.previousBills, del.id)
    /\ cache' = CacheOf(RestoredBills(del.previousBills, del.id))
    /\ syncSuccess' = FALSE
    /\ alerts' = alerts + 1
    /\ del' = NoCall
    /\ last' = IF last.kind = "delete" THEN [last EXCEPT !.st = "failed"] ELSE last
    /\ UNCHANGED <<remote, nextId, nextSeries, loading, isSyncing, error,
                   mounted, boot, toggle, save, formError, ops>>
    /\ UNCHANGED <<expVars, formVars, envVars, cacheVars>>

\* ------------------------------------------------------------------------
\* handleSubmit and handleSaveBill
\* ------------------------------------------------------------------------

\* setIsPaid(initialBill.isPaid) / setIsPaid(false): the form has no control
\* for isPaid, it submits what its opening effect has set
FormIsPaid(initialBill) ==
    IF initialBill.id # NoId THEN initialBill.isPaid ELSE FALSE

\* what the user leaves in the form's fields when submitting: every filled
\* combination, and the combinations with one field left empty or blank
FilledInputs(initialBill) ==
    {f \in [name : FormNames, amount : FormAmounts, date : FormDates,
            category : {OTHER_CATEGORY}, isRecurring : BOOLEAN,
            frequency : FormFrequencies \cup {MONTHLY},
            isPaid : {FormIsPaid(initialBill)}] :
        IF f.isRecurring THEN f.frequency \in FormFrequencies
        ELSE f.frequency = MONTHLY}

OneEmptyInputs(initialBill) ==
    LET g == [name |-> <<"g">>, amount |-> "10", date |-> 20240105,
              category |-> OTHER_CATEGORY, isRecurring |-> FALSE,
              frequency |-> MONTHLY, isPaid |-> FormIsPaid(initialBill)]
    IN  {[g EXCEPT !.name = <<>>], [g EXCEPT !.amount = ""],
         [g EXCEPT !.date = NoDate], [g EXCEPT !.name = <<" ">>]}

FormInputs(initialBill) ==
    FilledInputs(initialBill) \cup OneEmptyInputs(initialBill)

MsgEmpty == "Wypelnij wszystkie pola."

MsgDuplicate == "Rachunek juz istnieje w tym miesiacu."

\* the bills the edit modal can be opened on
Editable == {bills[i] : i \in 1..Len(bills)}

\* originalBill?.seriesId is truthy
HasSeries(b) == OrElse(b.seriesId, Null) # Null

\* wasRecurring && !isNowRecurring
TurnsOff(originalBill, billData) ==
    originalBill.isRecurring /\ ~billData.isRecurring

\* wasRecurring && isNowRecurring && updateFuture && originalBill?.seriesId
\* Variant of Regenerates without the test of originalBill?.seriesId.
RegeneratesAnyRecurring(originalBill, billData, updateFuture) ==
    /\ originalBill.isRecurring
    /\ billData.isRecurring
    /\ updateFuture

Regenerates(originalBill, billData, updateFuture) ==
    /\ originalBill.isRecurring
    /\ billData.isRecurring
    /\ updateFuture
    /\ HasSeries(originalBill)

\* bills.map(b => b.id === billData.id ? billData : b)
ReplaceBill(bs, billData) ==
    [i \in 1..Len(bs) |-> IF bs[i].id = billData.id THEN billData ELSE bs[i]]

\* the payload of the simple update: preparePayload(billData), with
\* series_id = null when recurrence was turned off
SimplePayload(billData, turnsOff) ==
    IF turnsOff THEN [preparePayload(billData) EXCEPT !.series_id = Null]
    ELSE preparePayload(billData)

\* the table after the delete of the turn-off branch
FutureDeleted(rows, originalBill, date) ==
    IF HasSeries(originalBill)
    THEN DeleteSeriesAfter(rows, originalBill.seriesId, date)
    ELSE DeleteLegacyAfter(rows, originalBill.name, originalBill.amount, date)

\* handleSubmit rejects the submission: setError and return
SubmitRejected(initialBill, f) ==
    /\ CanAct /\ save.pc = "idle"
    /\ SubmitOutcome(bills, initialBill, f) # "save"
    /\ formError' = IF SubmitOutcome(bills, initialBill, f) = "empty"
                    THEN MsgEmpty ELSE MsgDuplicate
    /\ ops' = ops + 1
    /\ last' = [kind |-> "submit", st |-> "rejected", route |-> "none",
                initialBill |-> initialBill, f |-> f,
                pre |-> Snapshot]
    /\ UNCHANGED <<remote, nextId, nextSeries, bills, cache, loading, isSyncing,
                   syncSuccess, error, alerts, mounted, boot, toggle, del, save>>
    /\ UNCHANGED <<failures, expVars, formVars, envVars, cacheVars>>

\* the branch handleSaveBill takes
Route(isNew, createSeries, originalBill, billData, updateFuture, confirmed) ==
    IF isNew THEN (IF createSeries THEN "createSeries" ELSE "createSingle")
    ELSE IF TurnsOff(originalBill, billData)
         THEN (IF confirmed THEN "turnOffConfirmed" ELSE "turnOffDeclined")
    ELSE IF Regenerates(originalBill, billData, updateFuture) THEN "regenerate"
    ELSE "simple"

\* the first remote call of a branch
FirstCall(route) ==
    CASE route = "createSeries"     -> "insertSeries"
      [] route = "createSingle"     -> "insertSingle"
      [] route = "turnOffConfirmed" -> "deleteFuture"
      [] route = "regenerate"       -> "updateCurrent"
      [] OTHER                      -> "updateSimple"

\* handleSubmit accepts the submission and calls onSave: handleSaveBill up to
\* its first await.  confirmFuture answers the form's window.confirm,
\* confirmDelete the confirm() of the turn-off branch.
SubmitSave(initialBill, f, confirmFuture, confirmDelete) ==
    /\ CanAct /\ save.pc = "idle"
    /\ SubmitOutcome(bills, initialBill, f) = "save"
    /\ isSupabaseConfigured
    /\ LET billData     == BillData(initialBill, f)
           isNew        == initialBill.id = NoId
           createSeries == isNew /\ f.isRecurring
           updateFuture == AsksUpdateFuture(initialBill, f) /\ confirmFuture
           originalBill == IF isNew THEN NoBill ELSE FindBill(bills, billData.id)
           asksDelete   == ~isNew /\ TurnsOff(originalBill, billData)
           route        == Route(isNew, createSeries, originalBill, billData,
                                 updateFuture, confirmDelete)
       IN  /\ confirmFuture => AsksUpdateFuture(initialBill, f)
           /\ confirmDelete => asksDelete
           /\ save' = [pc           |-> FirstCall(route),
                       route        |-> route,
                       billData     |-> billData,
                       originalBill |-> originalBill,
                       closure      |-> bills,
                       seriesId     |-> IF createSeries THEN nextSeries
                                        ELSE Undefined]
           /\ nextSeries' = IF createSeries THEN nextSeries + 1 ELSE nextSeries
           /\ last' = [kind |-> "submit", st |-> "pending", route |-> route,
                       initialBill |-> initialBill, f |-> f,
                       billData |-> billData, originalBill |-> originalBill,
                       updateFuture |-> updateFuture,
                       pre |-> Snapshot]
    /\ formError' = ""
    /\ isSyncing' = TRUE
    /\ ops' = ops + 1
    /\ UNCHANGED <<remote, nextId, bills, cache, loading, syncSuccess, error,
                   alerts, mounted, boot, toggle, del>>
    /\ UNCHANGED <<failures, expVars, formVars, envVars, cacheVars>>

MutationCalls ==
    {"insertSeries", "insertSingle", "deleteFuture", "updateCurrent",
     "deleteTail", "insertTail", "updateSimple"}

\* Variant of AlertsAfterCatch for a catch block that only logs the error.
AlertsAfterCatchSilent(n) == n

\* alert("...") of the catch block of handleSaveBill
AlertsAfterCatch(n) == n + 1

\* Variant of AfterFinally for a handler without the finally block: the flag
\* stays as the handler left it.
AfterFinallyMissing(syncing) == syncing

\* finally { setIsSyncing(false) } of handleSaveBill: whatever the flag was
AfterFinally(syncing) == FALSE

\* a remote mutation of handleSaveBill fails: the catch block, and finally
SaveFail ==
    /\ failures < MaxFailures
    /\ failures' = failures + 1
    /\ save.pc \in MutationCalls
    /\ syncSuccess' = FALSE
    /\ alerts' = AlertsAfterCatch(alerts)
    /\ isSyncing' = AfterFinally(isSyncing)
    /\ save' = NoCall
    /\ last' = [last EXCEPT !.st = "failed"]
    /\ UNCHANGED <<remote, nextId, nextSeries, bills, cache, loading, error,
                   mounted, boot, toggle, del, formError, ops>>
    /\ UNCHANGED <<expVars, formVars, envVars, cacheVars>>

\* .insert(newBillsPayload).select() of the creation of a series succeeds;
\* then  await fetchBills(true)  up to its await
SaveInsertSeriesOk ==
    /\ save.pc = "insertSeries"
    /\ LET payload == CreateSeriesPayload(save.billData, save.seriesId) IN
         /\ remote' = remote \cup InsertedRows(payload, nextId)
         /\ nextId' = nextId + Len(payload)
    /\ isSyncing' = TRUE
    /\ error' = ""
    /\ save' = [save EXCEPT !.pc = "select"]
    /\ UNCHANGED <<nextSeries, bills, cache, loading, syncSuccess, alerts,
                   mounted, boot, toggle, del, formError, ops, last>>
    /\ UNCHANGED <<failures, expVars, formVars, envVars, cacheVars>>

\* Variant of AddedBill that keeps the form's bill as it is, without the id
\* the table returned.
AddedBillAsSubmitted(billData, row) == billData

\* const addedBill = {...billData, id: data[0].id, seriesId: data[0].series_id}
AddedBill(billData, row) ==
    [billData EXCEPT !.id = row.id, !.seriesId = row.series_id]

\* .insert(preparePayload(billData)).select() succeeds: the bill is appended
\* to the closure's collection with the row's id and series_id
SaveInsertSingleOk ==
    /\ save.pc = "insertSingle"
    /\ LET row       == StoredRow(preparePayload(save.billData), nextId)
           addedBill == AddedBill(save.billData, row)
           newTotal  == Append(save.closure, addedBill)
       IN  /\ remote' = remote \cup {row}
           /\ bills' = newTotal
           /\ cache' = CacheOf(newTotal)
    /\ nextId' = nextId + 1
    /\ syncSuccess' = TRUE
    /\ isSyncing' = AfterFinally(isSyncing)
    /\ save' = NoCall
    /\ last' = [last EXCEPT !.st = "ok"]
    /\ UNCHANGED <<nextSeries, loading, error, alerts, mounted, boot, toggle,
                   del, formError, ops>>
    /\ UNCHANGED <<failures, expVars, formVars, envVars, cacheVars>>

\* the delete of the turn-off branch succeeds; billData.seriesId = undefined
SaveDeleteFutureOk ==
    /\ save.pc = "deleteFuture"
    /\ remote' = FutureDeleted(remote, save.originalBill, save.billData.dueDate)
    /\ save' = [save EXCEPT !.pc = "updateSimple",
                            !.billData.seriesId = Undefined]
    /\ UNCHANGED <<nextId, nextSeries, bills, cache, loading, isSyncing,
                   syncSuccess, error, alerts, mounted, boot, toggle, del,
                   formError, ops, last>>
    /\ UNCHANGED <<failures, expVars, formVars, envVars, cacheVars>>

\* the simple update succeeds: the mirror's entry is replaced by billData
SaveUpdateSimpleOk ==
    /\ save.pc = "updateSimple"
    /\ remote' = UpdateById(remote, save.billData.id,
                    SimplePayload(save.billData,
                                  TurnsOff(save.originalBill, save.billData)))
    /\ LET currentBills == ReplaceBill(save.closure, save.billData) IN
         /\ bills' = currentBills
         /\ cache' = CacheOf(currentBills)
    /\ syncSuccess' = TRUE
    /\ isSyncing' = AfterFinally(isSyncing)
    /\ save' = NoCall
    /\ last' = [last EXCEPT !.st = "ok"]
    /\ UNCHANGED <<nextId, nextSeries, loading, error, alerts, mounted, boot,
                   toggle, del, formError, ops>>
    /\ UNCHANGED <<failures, expVars, formVars, envVars, cacheVars>>

\* A. the update of the edited bill succeeds
SaveUpdateCurrentOk ==
    /\ save.pc = "updateCurrent"
    /\ remote' = UpdateById(remote, save.billData.id,
                            preparePayload(save.billData))
    /\ save' = [save EXCEPT !.pc = "deleteTail"]
    /\ UNCHANGED <<nextId, nextSeries, bills, cache, loading, isSyncing,
                   syncSuccess, error, alerts, mounted, boot, toggle, del,
                   formError, ops, last>>
    /\ UNCHANGED <<failures, expVars, formVars, envVars, cacheVars>>

\* B. the delete of the future bills of the series succeeds
SaveDeleteTailOk ==
    /\ save.pc = "deleteTail"
    /\ remote' = DeleteSeriesAfter(remote, save.originalBill.seriesId,
                                   save.billData.dueDate)
    /\ save' = [save EXCEPT !.pc = "insertTail"]
    /\ UNCHANGED <<nextId, nextSeries, bills, cache, loading, isSyncing,
                   syncSuccess, error, alerts, mounted, boot, toggle, del,
                   formError, ops, last>>
    /\ UNCHANGED <<failures, expVars, formVars, envVars, cacheVars>>

\* C. the insert of the regenerated bills succeeds; then
\* await fetchBills(true)  up to its await
SaveInsertTailOk ==
    /\ save.pc = "insertTail"
    /\ LET payload == RegeneratePayload(save.billData,
                                        save.originalBill.seriesId) IN
         /\ remote' = remote \cup InsertedRows(payload, nextId)
         /\ nextId' = nextId + Len(payload)
    /\ isSyncing' = TRUE
    /\ error' = ""
    /\ save' = [save EXCEPT !.pc = "select"]
    /\ UNCHANGED <<nextSeries, bills, cache, loading, syncSuccess, alerts,
                   mounted, boot, toggle, del, formError, ops, last>>
    /\ UNCHANGED <<failures, expVars, formVars, envVars, cacheVars>>

\* the table answers the select of handleSaveBill's fetchBills(true)
SaveFetchServe ==
    /\ save.pc = "select"
    /\ \E data \in SortedSeqs(remote) :
          save' = [pc |-> "reply", route |-> save.route, closure |-> save.closure,
                   data |-> data]
    /\ UNCHANGED <<remote, nextId, nextSeries, bills, cache, loading, isSyncing,
                   syncSuccess, error, alerts, mounted, boot, toggle, del,
                   formError, ops, last>>
    /\ UNCHANGED <<failures, expVars, formVars, envVars, cacheVars>>

\* that select fails
SaveFetchFail ==
    /\ failures < MaxFailures
    /\ failures' = failures + 1
    /\ save.pc = "select"
    /\ \E kind \in FailureKinds :
          save' = [pc |-> "throw", route |-> save.route, closure |-> save.closure,
                   kind |-> kind]
    /\ UNCHANGED <<remote, nextId, nextSeries, bills, cache, loading, isSyncing,
                   syncSuccess, error, alerts, mounted, boot, toggle, del,
                   formError, ops, last>>
    /\ UNCHANGED <<expVars, formVars, envVars, cacheVars>>

\* fetchBills(true) ends in its try block; handleSaveBill goes on: after the
\* creation of a series setSyncSuccess(true), after the regeneration return;
\* finally setIsSyncing(false)
SaveFetchDeliver ==
    /\ save.pc = "reply"
    /\ LET fb == FetchedBills(save.data) IN
         /\ bills' = IF FetchDiffers(fb) THEN fb ELSE bills
         /\ cache' = IF FetchDiffers(fb) THEN CacheOf(fb) ELSE cache
    /\ syncSuccess' = TRUE
    /\ loading' = FALSE
    /\ isSyncing' = AfterFinally(isSyncing)
    /\ save' = NoCall
    /\ last' = [last EXCEPT !.st = "ok"]
    /\ UNCHANGED <<remote, nextId, nextSeries, error, alerts, mounted, boot,
                   toggle, del, formError, ops>>
    /\ UNCHANGED <<failures, expVars, formVars, envVars, cacheVars>>

\* fetchBills(true) ends in its catch block; handleSaveBill goes on as above
SaveFetchCatch ==
    /\ save.pc = "throw"
    /\ syncSuccess' = (save.route = "createSeries")
    /\ error' = LET e == ErrorAfterCatch(save.kind, save.closure)
                IN IF e = "" THEN error ELSE e
    /\ loading' = FALSE
    /\ isSyncing' = AfterFinally(isSyncing)
    /\ save' = NoCall
    /\ last' = [last EXCEPT !.st = "unfetched"]
    /\ UNCHANGED <<remote, nextId, nextSeries, bills, cache, alerts, mounted,
                   boot, toggle, del, formError, ops>>
    /\ UNCHANGED <<failures, expVars, formVars, envVars, cacheVars>>

\* ------------------------------------------------------------------------
\* The running system, one operation at a time
\* ------------------------------------------------------------------------

\* no call is in flight
Idle ==
    /\ boot.pc = "idle" /\ toggle.pc = "idle"
    /\ del.pc = "idle" /\ save.pc = "idle"

UserRetry == Idle /\ Retry

UserToggle == Idle /\ \E i \in 1..Len(bills) : ToggleStart(bills[i].id)

\* a toggle that reaches the handler with the id of a bill that is not in the
\* collection: the id the table gives out next
UserToggleAbsent == Idle /\ ToggleAbsent(nextId)

UserDelete == Idle /\ \E i \in 1..Len(bills) : DeleteStart(bills[i].id)

\* the answers the user can give: a dialog that is not shown is not answered
Answers(shown) == IF shown THEN BOOLEAN ELSE {FALSE}

UserSubmitRejected ==
    /\ Idle /\ CanAct
    /\ \E initialBill \in {NoBill} \cup Editable :
         \E f \in {g \in FormInputs(initialBill) :
                      SubmitOutcome(bills, initialBill, g) # "save"} :
            SubmitRejected(initialBill, f)

UserSubmitSave ==
    /\ Idle /\ CanAct
    /\ \E initialBill \in {NoBill} \cup Editable :
         \E f \in {g \in FormInputs(initialBill) :
                      SubmitOutcome(bills, initialBill, g) = "save"} :
            \E confirmFuture \in Answers(AsksUpdateFuture(initialBill, f)),
               confirmDelete \in Answers(initialBill.id # NoId
                                         /\ initialBill.isRecurring
                                         /\ ~f.isRecurring) :
                SubmitSave(initialBill, f, confirmFuture, confirmDelete)

Next ==
    \/ Mount
    \/ UserRetry
    \/ BootServe
    \/ BootFail
    \/ BootDeliver
    \/ BootCatch
    \/ UserToggle
    \/ UserToggleAbsent
    \/ ToggleOk
    \/ ToggleFail
    \/ UserDelete
    \/ DeleteOk
    \/ DeleteFail
    \/ UserSubmitRejected
    \/ UserSubmitSave
    \/ SaveFail
    \/ SaveInsertSeriesOk
    \/ SaveInsertSingleOk
    \/ SaveDeleteFutureOk
    \/ SaveUpdateSimpleOk
    \/ SaveUpdateCurrentOk
    \/ SaveDeleteTailOk
    \/ SaveInsertTailOk
    \/ SaveFetchServe
    \/ SaveFetchFail
    \/ SaveFetchDeliver
    \/ SaveFetchCatch

Spec == Init /\ [][Next]_vars

\* ------------------------------------------------------------------------
\* Series expansion on its own: the two loops applied to every anchor
\* ------------------------------------------------------------------------

FirstYear == 2023

\* the last year an anchor is taken from
LastYear == 2024

ExpandDates ==
    {MkDate(y, m, d) : y \in FirstYear..LastYear, m \in 1..12, d \in 1..31}

\* billData as handleSubmit builds it for a recurring bill
ExpandAnchors ==
    {[id |-> NoId, name |-> <<"N">>, amount |-> 10,
      category |-> OTHER_CATEGORY, dueDate |-> date, isRecurring |-> TRUE,
      frequency |-> f, isPaid |-> p, seriesId |-> Undefined,
      keys |-> FormKeys] :
        date \in {x \in ExpandDates :
                    DayOf(x) <= DaysInMonth(YearOf(x), MonthOf(x))},
        f \in BillFrequency, p \in BOOLEAN}

\* a frequency the form's buttons do not offer, in the frequency column of a
\* row another client wrote
ForeignFrequencies == {2}

\* billData as handleSubmit builds it when such a row is edited: the form
\* takes the row's frequency as it is
ForeignAnchors ==
    {[id |-> NoId, name |-> <<"N">>, amount |-> 10,
      category |-> OTHER_CATEGORY, dueDate |-> date, isRecurring |-> TRUE,
      frequency |-> f, isPaid |-> p, seriesId |-> Undefined,
      keys |-> FormKeys] :
        date \in {x \in ExpandDates :
                    DayOf(x) <= DaysInMonth(YearOf(x), MonthOf(x))},
        f \in ForeignFrequencies, p \in BOOLEAN}

InitSysIdle ==
    /\ remote = {}
    /\ nextId = 1
    /\ nextSeries = MintedSeries
    /\ bills = <<>>
    /\ cache = NoCache
    /\ loading = TRUE
    /\ isSyncing = FALSE
    /\ syncSuccess = FALSE
    /\ error = ""
    /\ alerts = 0
    /\ mounted = FALSE
    /\ boot = NoCall
    /\ toggle = NoCall
    /\ del = NoCall
    /\ save = NoCall
    /\ formError = ""
    /\ ops = 0
    /\ failures = 0
    /\ last = NoOp

InitExpand ==
    /\ InitSysIdle
    /\ InitFormNone
    /\ cacheRun = NoCacheRun
    /\ zone \in Zones
    /\ configured = TRUE
    /\ xBill \in ExpandAnchors \cup ForeignAnchors
    /\ xMode = "none"
    /\ xPayload = <<>>

\* the loop of the creation of a series, on the new bill xBill; the form of
\* a new bill starts from MONTHLY and sets one of the four frequencies
ExpandCreate ==
    /\ xMode = "none"
    /\ xBill.frequency \in BillFrequency
    /\ xMode' = "create"
    /\ xPayload' = CreateSeriesPayload(xBill, nextSeries)
    /\ UNCHANGED <<xBill, sysVars, formVars, envVars, cacheVars>>

\* the loop of the regeneration, on the edited bill xBill of the series
\* OriginalSeries
ExpandRegenerate ==
    /\ xMode = "none"
    /\ xMode' = "regenerate"
    /\ xBill' = [xBill EXCEPT !.id = 1, !.seriesId = OriginalSeries]
    /\ xPayload' = RegeneratePayload(xBill', OriginalSeries)
    /\ UNCHANGED <<sysVars, formVars, envVars, cacheVars>>

NextExpand == ExpandCreate \/ ExpandRegenerate

SpecExpand == InitExpand /\ [][NextExpand]_vars

\* ------------------------------------------------------------------------
\* Claims on the series expansion
\* ------------------------------------------------------------------------

\* the counts the specification gives: ceil(12/f) + 1 with the anchor
\* (13, 5, 3, 2), ceil(12/f) without it (12, 4, 2, 1)
ClaimedCount(f, startOffset) ==
    LET tail == CASE f = 1 -> 12 [] f = 3 -> 4 [] f = 6 -> 2 [] OTHER -> 1
    IN  IF startOffset = 0 THEN tail + 1 ELSE tail

\* C6: for every frequency of {1,3,6,12}, the creation of a series inserts
\* ceil(12/f) + 1 occurrences (13, 5, 3, 2) and the regeneration of the tail
\* inserts ceil(12/f) occurrences (12, 4, 2, 1).
C6_OccurrenceCount ==
    xBill.frequency \in BillFrequency =>
        /\ xMode = "create" => Len(xPayload) = ClaimedCount(xBill.frequency, 0)
        /\ xMode = "regenerate" =>
              Len(xPayload) = ClaimedCount(xBill.frequency, 1)

C6_Witness ==
    /\ xMode = "create" /\ xBill.frequency = QUARTERLY /\ Len(xPayload) = 5

\* C7: the occurrences of one expansion carry one seriesId (the minted one at
\* the creation, the original bill's at the regeneration), and their due dates
\* are strictly increasing, consecutive ones exactly f calendar months apart.
C7_OneSeriesEvenlySpaced ==
    xMode # "none" =>
        /\ \A n \in 1..Len(xPayload) :
              xPayload[n].series_id =
                 (IF xMode = "create" THEN MintedSeries ELSE OriginalSeries)
        /\ \A n \in 1..(Len(xPayload) - 1) :
              /\ xPayload[n].due_date < xPayload[n + 1].due_date
              /\ MonthIndex(xPayload[n + 1].due_date)
                    - MonthIndex(xPayload[n].due_date) = xBill.frequency

\* C20: an expansion given a frequency outside {1,3,6,12} inserts no
\* occurrence (it signals InvalidFrequency instead); given a frequency of the
\* set it always produces its occurrences.
C20_InvalidFrequencyInsertsNothing ==
    xMode # "none" =>
        IF xBill.frequency \in BillFrequency
        THEN Len(xPayload) >= 1
        ELSE xPayload = <<>>

\* the advance by k calendar months the specification asks for: the month k
\* months on, the day kept, or the month's last day when it has no such day
AdvancedByMonths(date, k) ==
    LET m0  == MonthOf(date) - 1 + k
        y   == YearOf(date) + (m0 \div 12)
        m   == (m0 % 12) + 1
        dim == DaysInMonth(y, m)
    IN  MkDate(y, m, IF DayOf(date) <= dim THEN DayOf(date) ELSE dim)

\* the first index of an expansion: 0 at the creation, 1 at the regeneration
StartOffset == IF xMode = "create" THEN 0 ELSE 1

\* count = ceil(12/f) + (1 if startOffset = 0, else 0), as specified
SpecifiedCount(f) == CeilHorizon(f) + (IF StartOffset = 0 THEN 1 ELSE 0)

\* C21: the occurrences of an expansion are exactly the anchor's due date
\* advanced by f*i months, for the indices i with startOffset <= i < count,
\* count = ceil(12/f) + (1 if startOffset = 0, else 0), at the creation and
\* at the regeneration.
C21_OccurrencesAreAdvancedAnchor ==
    (xMode # "none" /\ xBill.frequency \in BillFrequency) =>
        LET f == xBill.frequency
            indices == StartOffset..(SpecifiedCount(f) - 1)
        IN  /\ Len(xPayload) = Cardinality(indices)
            /\ \A n \in 1..Len(xPayload) :
                  xPayload[n].due_date =
                     AdvancedByMonths(xBill.dueDate, f * (StartOffset + n - 1))

\* C22: for every anchor day 1..31, every anchor month and every frequency
\* of {1,3,6,12}, occurrence i falls in the calendar month exactly i*f months
\* after the anchor's month, so no two occurrences share a month.
C22_OccurrenceMonths ==
    (xMode # "none" /\ xBill.frequency \in BillFrequency) =>
        /\ \A n \in 1..Len(xPayload) :
              MonthIndex(xPayload[n].due_date) =
                 MonthIndex(xBill.dueDate)
                    + xBill.frequency * (StartOffset + n - 1)
        /\ \A n \in 1..Len(xPayload), k \in 1..Len(xPayload) :
              n # k => MonthIndex(xPayload[n].due_date)
                          # MonthIndex(xPayload[k].due_date)

\* C8: at the creation only occurrence 0 carries the anchor's isPaid, every
\* other occurrence is unpaid; every regenerated occurrence is unpaid.
C8_OnlyAnchorInheritsPaid ==
    /\ xMode = "create" =>
          /\ xPayload[1].is_paid = xBill.isPaid
          /\ \A n \in 2..Len(xPayload) : xPayload[n].is_paid = FALSE
    /\ xMode = "regenerate" =>
          \A n \in 1..Len(xPayload) : xPayload[n].is_paid = FALSE

C8_Witness ==
    /\ xMode = "create" /\ xBill.isPaid
    /\ xPayload[1].is_paid /\ ~xPayload[2].is_paid

\* ------------------------------------------------------------------------
\* Claims on the running system
\* ------------------------------------------------------------------------

\* a bill and a row by their values, a missing value and null taken as one
BillView(b) ==
    [id |-> b.id, name |-> b.name, amount |-> b.amount, dueDate |-> b.dueDate,
     isPaid |-> b.isPaid, isRecurring |-> b.isRecurring,
     frequency |-> OrElse(b.frequency, Null), category |-> b.category,
     seriesId |-> OrElse(b.seriesId, Null)]

RowView(r) ==
    [id |-> r.id, name |-> r.name, amount |-> r.amount, dueDate |-> r.due_date,
     isPaid |-> r.is_paid, isRecurring |-> r.is_recurring,
     frequency |-> r.frequency, category |-> r.category,
     seriesId |-> r.series_id]

\* the mirror (collection and cache) holds exactly the rows of the table
MirrorMatches(bs, c, rows) ==
    /\ {BillView(bs[i]) : i \in 1..Len(bs)} = {RowView(r) : r \in rows}
    /\ Len(bs) = Cardinality(rows)
    /\ c = CacheOf(bs)

Ids(rows) == {r.id : r \in rows}

\* the last user operation has ended and each of its remote calls succeeded
LastSucceeded == Idle /\ last.kind # "none" /\ last.st = "ok"

LastStartedInSync ==
    MirrorMatches(last.pre.bills, last.pre.cache, last.pre.remote)

\* C1: from a mirror that holds exactly the table's rows, a single user
\* action whose remote calls all succeed leaves the mirror holding exactly
\* the table's rows again.
C1_MirrorMatchesAfterAction ==
    (LastSucceeded /\ LastStartedInSync) => MirrorMatches(bills, cache, remote)

\* the last operation was a confirmed turn-off on a bill of a series, and
\* every call succeeded
TurnOffConfirmedDone ==
    /\ LastSucceeded /\ last.kind = "submit"
    /\ last.route = "turnOffConfirmed"
    /\ HasSeries(last.originalBill)

\* C2: a confirmed turn-off on a bill of series S removes exactly the
\* siblings of S due after the edited bill's new date, leaves the other
\* siblings untouched, and leaves the edited bill without seriesId.
C2_TurnOffRemovesFutureSiblings ==
    TurnOffConfirmedDone =>
        LET S        == last.originalBill.seriesId
            date     == last.billData.dueDate
            id       == last.billData.id
            siblings == {r \in last.pre.remote : r.series_id = S /\ r.id # id}
            removed  == {r \in last.pre.remote : r.id \notin Ids(remote)}
        IN  /\ removed = {r \in siblings : r.due_date > date}
            /\ \A r \in siblings : r.due_date <= date => r \in remote
            /\ \E r \in remote : r.id = id /\ r.series_id = Null
            /\ HasId(bills, id) /\ ~HasSeries(FindBill(bills, id))

\* the last operation was a regeneration whose update, delete and insert
\* succeeded
RegenerationDone ==
    /\ Idle /\ last.kind = "submit" /\ last.route = "regenerate"
    /\ last.st \in {"ok", "unfetched"}

\* C3: after a regeneration whose three remote steps succeed, the edited
\* bill's new amount is stored, no old row of the series is due after the
\* edited bill's new date, and the table holds a fresh tail of unpaid
\* occurrences with the new amount, the new frequency and the series' id.
C3_RegenerationResult ==
    RegenerationDone =>
        LET S     == last.originalBill.seriesId
            b     == last.billData
            old   == {r \in remote : r.id \in Ids(last.pre.remote)}
            fresh == remote \ old
        IN  /\ \E r \in remote : r.id = b.id /\ r.amount = b.amount
            /\ \A r \in old : r.series_id = S => r.due_date <= b.dueDate
            /\ fresh # {}
            /\ \A r \in fresh :
                  /\ ~r.is_paid /\ r.amount = b.amount
                  /\ r.frequency = b.frequency /\ r.series_id = S
                  /\ r.due_date > b.dueDate

\* C4: toggleBillPaid flips the bill's isPaid in collection and cache before
\* the remote call returns; when the call fails, collection and cache are
\* what they were before the toggle, and one alert is raised.
C4_ToggleOptimisticRollback ==
    /\ toggle.pc = "update" =>
          /\ FindBill(bills, toggle.id).isPaid
                = ~FindBill(last.pre.bills, toggle.id).isPaid
          /\ cache = CacheOf(bills)
          /\ remote = last.pre.remote
    /\ (Idle /\ last.kind = "toggle" /\ last.st = "failed") =>
          /\ bills = last.pre.bills
          /\ cache = last.pre.cache
          /\ alerts = last.pre.alerts + 1

C4_Witness ==
    /\ Idle /\ last.kind = "toggle" /\ last.st = "failed"
    /\ Len(bills) > 1 /\ bills = last.pre.bills

\* C5: handleDeleteBill removes the bill from collection and cache before the
\* remote call returns; when the call fails, collection and cache are
\* restored (same bills, same order) and one alert is raised; when it
\* succeeds, the bill is in neither the collection nor the table.
C5_DeleteOptimisticRollback ==
    /\ del.pc = "delete" =>
          /\ ~HasId(bills, del.id)
          /\ cache = CacheOf(bills)
          /\ remote = last.pre.remote
    /\ (Idle /\ last.kind = "delete" /\ last.st = "failed") =>
          /\ bills = last.pre.bills
          /\ cache = last.pre.cache
          /\ alerts = last.pre.alerts + 1
    /\ (Idle /\ last.kind = "delete" /\ last.st = "ok") =>
          /\ ~HasId(bills, last.id)
          /\ last.id \notin Ids(remote)

C5_Witness ==
    /\ Idle /\ last.kind = "delete" /\ last.st = "failed"
    /\ Len(bills) > 1 /\ bills = last.pre.bills

\* two rows the duplicate guard would not let coexist
SameNameAndMonth(r, q) ==
    /\ ToLowerCase(Trim(r.name)) = ToLowerCase(Trim(q.name))
    /\ MonthOf(r.due_date) = MonthOf(q.due_date)
    /\ YearOf(r.due_date) = YearOf(q.due_date)

\* C10: the table holds at most one bill per (trimmed lower-case name, month,
\* year), whatever the form submissions.
C10_OneBillPerNameAndMonth ==
    \A r \in remote : \A q \in remote : SameNameAndMonth(r, q) => r.id = q.id

\* ------------------------------------------------------------------------
\* The form on its own: handleSubmit applied to every submission
\* ------------------------------------------------------------------------

\* bills of earlier sessions, as fetchBills maps them
ExistingCandidates(id) ==
    {FormatBill([id |-> id, name |-> n, amount |-> 10, due_date |-> d,
                 is_paid |-> FALSE, is_recurring |-> FALSE,
                 frequency |-> Null, category |-> OTHER_CATEGORY,
                 series_id |-> Null]) :
        n \in {<<"n">>, <<"N">>, <<"g">>},
        d \in {20240320, 20240420, 20250320}}

\* bills in the collection the form is given
MaxExisting == 2

ExistingCollections ==
    UNION {{bs \in [1..k -> UNION {ExistingCandidates(id) : id \in 1..k}] :
               \A i \in 1..k : bs[i].id = i} : k \in 0..MaxExisting}

SubmittedFields ==
    [name : {<<"N">>, <<"n">>, <<" ", "N", " ">>, <<"g">>, <<>>},
     amount : {"", "10"},
     date : {NoDate, 20240305, 20240401, 20250310},
     category : {OTHER_CATEGORY}, isRecurring : {FALSE},
     frequency : {MONTHLY}, isPaid : {FALSE}]

InitForm ==
    /\ InitSysIdle
    /\ InitExpNone
    /\ cacheRun = NoCacheRun
    /\ zone \in Zones
    /\ configured = TRUE
    /\ fExisting \in ExistingCollections
    /\ fInitial \in {NoBill} \cup {fExisting[i] : i \in 1..Len(fExisting)}
    /\ fFields \in SubmittedFields
    /\ fResult = "none"
    /\ fSaved = NoBill

\* handleSubmit on the fields, given existingBills and initialBill
FormSubmit ==
    /\ fResult = "none"
    /\ fResult' = SubmitOutcome(fExisting, fInitial, fFields)
    /\ fSaved' = IF fResult' = "save" THEN BillData(fInitial, fFields) ELSE NoBill
    /\ UNCHANGED <<fExisting, fInitial, fFields, sysVars, expVars, envVars, cacheVars>>

\* the user corrects the fields after a rejection
FormEdit ==
    /\ fResult \in {"empty", "duplicate"}
    /\ fResult' = "none"
    /\ fFields' \in SubmittedFields
    /\ UNCHANGED <<fExisting, fInitial, fSaved, sysVars, expVars, envVars, cacheVars>>

NextForm == FormSubmit \/ FormEdit

SpecForm == InitForm /\ [][NextForm]_vars

\* the name a user means by what is typed: spaces around it and the case of
\* its letters do not count
MeantName(name) ==
    CASE name \in {<<"N">>, <<"n">>, <<" ", "N", " ">>} -> "n"
      [] name \in {<<"g">>}                            -> "g"
      [] OTHER                                         -> ""

\* some bill of the collection, other than the edited one, bears the
\* submitted name in the submitted date's month and year
DuplicateExists ==
    \E i \in 1..Len(fExisting) :
        /\ fInitial = NoBill \/ fExisting[i].id # fInitial.id
        /\ MeantName(fExisting[i].name) = MeantName(fFields.name)
        /\ fExisting[i].dueDate \div 100 = fFields.date \div 100

Rejected == fResult \in {"empty", "duplicate"}

\* C9: a submission with its fields filled in is rejected (onSave is not
\* called) exactly when some bill of the collection, other than the bill being
\* edited, has the same name, trimmed and whatever the case, and a due date in
\* the month and year of the submitted date; the same name in another month
\* or year is not rejected.
C9_RejectedIffDuplicate ==
    (fResult # "none" /\ ~FieldsMissing(fFields)) =>
        /\ Rejected <=> DuplicateExists
        /\ Rejected <=> fSaved = NoBill

\* ------------------------------------------------------------------------
\* Series invariants of the table
\* ------------------------------------------------------------------------

\* C11: every row of the table that has a series id is recurring: an edit that
\* turns recurrence off writes series_id = null, confirmed or not.
C11_SeriesRowsAreRecurring ==
    \A r \in remote : r.series_id # Null => r.is_recurring

\* the rows of the series s
SeriesRows(s) == {r \in remote : r.series_id = s}

SeriesIds == {r.series_id : r \in remote} \ {Null}

\* the series' anchor: its earliest row
IsAnchor(r) == \A q \in SeriesRows(r.series_id) : r.due_date <= q.due_date

\* C12: the rows of one series have pairwise distinct due dates, and each of
\* them lies a whole number of its frequency, in calendar months, after the
\* series' anchor.
C12_SeriesRowsEvenlySpaced ==
    \A s \in SeriesIds : \A r \in SeriesRows(s), a \in SeriesRows(s) :
        (IsAnchor(a) /\ r.id # a.id) =>
            /\ r.due_date > a.due_date
            /\ r.frequency \in BillFrequency
            /\ MonthIndex(r.due_date) > MonthIndex(a.due_date)
            /\ (MonthIndex(r.due_date) - MonthIndex(a.due_date))
                    % r.frequency = 0

\* ------------------------------------------------------------------------
\* What handleSaveBill leaves behind
\* ------------------------------------------------------------------------

\* the last handleSaveBill call has returned
SaveReturned ==
    /\ save.pc = "idle" /\ last.kind = "submit"
    /\ last.st \in {"ok", "failed", "unfetched"}

\* C13: a regeneration that has changed the table does not return before it
\* has issued the full re-fetch, also when its update succeeded and its
\* delete or its insert then failed.
C13_RegenerationRefetches ==
    (SaveReturned /\ last.route = "regenerate" /\ remote # last.pre.remote)
        => last.st \in {"ok", "unfetched"}

\* the rows the last operation has added to the table
NewRows == {r \in remote : r.id \notin Ids(last.pre.remote)}

BillIds(bs) == {bs[i].id : i \in 1..Len(bs)}

\* C14: while the insert of a creation is in flight, collection and cache are
\* what they were at the call; they still are when the insert has failed; a
\* single bill whose insert succeeded is in the collection once, under the id
\* of its row.
C14_CreationWaitsForInsert ==
    /\ save.pc \in {"insertSeries", "insertSingle"} =>
          /\ bills = last.pre.bills
          /\ cache = last.pre.cache
    /\ (SaveReturned /\ last.route \in {"createSeries", "createSingle"}
          /\ last.st = "failed") =>
          /\ bills = last.pre.bills
          /\ cache = last.pre.cache
    /\ (SaveReturned /\ last.route = "createSingle" /\ last.st = "ok") =>
          /\ Cardinality(NewRows) = 1
          /\ Len(bills) = Len(last.pre.bills) + 1
          /\ SubSeq(bills, 1, Len(last.pre.bills)) = last.pre.bills
          /\ \A r \in NewRows :
                /\ bills[Len(bills)].id = r.id
                /\ r.id \notin BillIds(last.pre.bills)
                /\ BillView(bills[Len(bills)]) = RowView(r)
          /\ cache = CacheOf(bills)

C14_Witness ==
    /\ SaveReturned /\ last.route = "createSingle" /\ last.st = "ok"
    /\ Len(last.pre.bills) >= 1
    /\ bills[Len(bills)].id \notin BillIds(last.pre.bills)

\* the last handleSaveBill call has returned through its catch block
SaveFailed == SaveReturned /\ last.st = "failed"

\* the tables a failed call can leave: the one it met, changed by the
\* mutations of its branch that came before the failed one, and by no other
TablesBeforeFailure ==
    LET met     == last.pre.remote
        b       == last.billData
        updated == UpdateById(met, b.id, preparePayload(b))
    IN  CASE last.route = "turnOffConfirmed" ->
                {met, FutureDeleted(met, last.originalBill, b.dueDate)}
          [] last.route = "regenerate" ->
                {met, updated,
                 DeleteSeriesAfter(updated, last.originalBill.seriesId,
                                   b.dueDate)}
          [] OTHER -> {met}

\* C15: when a remote mutation of handleSaveBill has failed, collection and
\* cache are what they were at the call, one alert has been raised, no call
\* is in flight any more, and the table shows no mutation later than the
\* failed one.
C15_SaveFailureLeavesMirror ==
    SaveFailed =>
        /\ bills = last.pre.bills
        /\ cache = last.pre.cache
        /\ alerts = last.pre.alerts + 1
        /\ save.pc = "idle"
        /\ remote \in TablesBeforeFailure

C15_Witness ==
    /\ SaveFailed /\ last.route = "regenerate"
    /\ remote # last.pre.remote
    /\ bills = last.pre.bills /\ Len(bills) > 1

\* ------------------------------------------------------------------------
\* fetchBills and the cache
\* ------------------------------------------------------------------------

\* the render's branch  error && bills.length === 0
ErrorScreen == ~loading /\ error # "" /\ Len(bills) = 0

\* C16: when the startup effect has loaded a cached collection, empty or not
\* (its fetch is then a background refresh), the failure of that fetch does
\* not lead to the full-screen error state.
C16_NoErrorScreenWithCache ==
    [][(boot.pc = "throw" /\ boot.isBackgroundRefresh /\ boot'.pc = "idle")
          => ~ErrorScreen']_vars

\* what a fetch that read the rows data leaves: the collection and the blob
\* are written when the text of the result is not the cached text, and kept
\* when it is
FetchWrites(data) ==
    LET fb == FetchedBills(data) IN
    IF cache.present /\ cache.blob = Stringify(fb)
    THEN bills' = bills /\ cache' = cache
    ELSE bills' = fb /\ cache' = [present |-> TRUE, blob |-> Stringify(fb)]

\* C17: fetchBills writes collection and cache only when the read succeeded
\* and the serialized result is not the cached blob; when the read fails, or
\* the result is the cached blob, it leaves both as they are.
C17_FetchWritesOnlyOnChange ==
    [][/\ (boot.pc = "reply" /\ boot'.pc = "idle") => FetchWrites(boot.data)
       /\ (save.pc = "reply" /\ save'.pc = "idle") => FetchWrites(save.data)
       /\ (boot.pc \in {"select", "throw"} /\ boot' # boot)
             => UNCHANGED <<bills, cache>>
       /\ (save.pc \in {"select", "throw"} /\ save' # save)
             => UNCHANGED <<bills, cache>>]_vars

\* a fetch has replaced a collection that was not the table's
C17_Witness ==
    /\ SaveReturned /\ last.st = "ok"
    /\ last.route \in {"createSeries", "regenerate"}
    /\ bills # last.pre.bills /\ Len(last.pre.bills) > 0
    /\ cache = CacheOf(bills) /\ cache # last.pre.cache

\* ------------------------------------------------------------------------
\* The cache on its own: JSON.stringify and JSON.parse on the collections
\* the handlers write
\* ------------------------------------------------------------------------

\* rows of the table, one of a series and one single
CachedRows(id) ==
    {[id |-> id, name |-> <<"N">>, amount |-> 10, due_date |-> 20240105,
      is_paid |-> p, is_recurring |-> rec,
      frequency |-> IF rec THEN SEMIANNUAL ELSE Null,
      category |-> OTHER_CATEGORY,
      series_id |-> IF rec THEN OriginalSeries ELSE Null] :
        p \in BOOLEAN, rec \in BOOLEAN}

CachedFields ==
    [name : {<<"g">>}, amount : {"20"}, date : {20240705},
     category : {OTHER_CATEGORY}, isRecurring : BOOLEAN,
     frequency : {ANNUAL}, isPaid : {FALSE}]

\* the bills a handler puts into the collection: fetched ones, edited ones
\* (also with seriesId set to undefined by a turn-off), new ones
CachedBills(id) ==
    {FormatBill(r) : r \in CachedRows(id)}
    \cup {BillData(FormatBill(r), f) : r \in CachedRows(id), f \in CachedFields}
    \cup {[BillData(FormatBill(r), f) EXCEPT !.seriesId = Undefined] :
              r \in CachedRows(id), f \in CachedFields}
    \cup {AddedBill(BillData(NoBill, f),
                    StoredRow(preparePayload(BillData(NoBill, f)), id)) :
              f \in CachedFields}

\* bills in a cached collection
MaxCached == 2

CachedCollections ==
    UNION {{bs \in [1..k -> UNION {CachedBills(id) : id \in 1..k}] :
               \A i \in 1..k : bs[i].id = i} : k \in 0..MaxCached}

\* loads of the cache in one run
MaxLoads == 2

\* saves of the loaded collection in one run
MaxSaves == 1

InitCache ==
    /\ InitSysIdle
    /\ InitExpNone
    /\ InitFormNone
    /\ zone = "east"
    /\ configured = TRUE
    /\ \E bs \in CachedCollections :
          cacheRun = [NoCacheRun EXCEPT !.blob = Stringify(bs)]

\* loadFromCache: JSON.parse(cached)
CacheLoad ==
    /\ cacheRun.loads < MaxLoads
    /\ cacheRun' = [cacheRun EXCEPT !.loaded = Parse(cacheRun.blob),
                                    !.prevLoaded = cacheRun.loaded,
                                    !.loads = @ + 1]
    /\ UNCHANGED <<sysVars, expVars, formVars, envVars>>

\* localStorage.setItem(CACHE_KEY, JSON.stringify(collection)) on the
\* collection that was loaded
CacheSave ==
    /\ cacheRun.loads >= 1 /\ cacheRun.saves < MaxSaves
    /\ cacheRun' = [cacheRun EXCEPT !.blob = Stringify(cacheRun.loaded),
                                    !.prevBlob = cacheRun.blob,
                                    !.saves = @ + 1]
    /\ UNCHANGED <<sysVars, expVars, formVars, envVars>>

NextCache == CacheLoad \/ CacheSave

SpecCache == InitCache /\ [][NextCache]_vars

\* C18: loading the cached collection twice gives the same collection, and
\* saving a collection that was just loaded writes the blob that was there.
C18_SaveAfterLoadIsIdempotent ==
    /\ cacheRun.loads >= 2 => cacheRun.loaded = cacheRun.prevLoaded
    /\ cacheRun.saves >= 1 => cacheRun.blob = cacheRun.prevBlob

\* a bill in the form's key order, its undefined frequency left out of the
\* text, was loaded, saved and loaded again
C18_Witness ==
    /\ cacheRun.loads = 2 /\ cacheRun.saves = 1
    /\ \E i \in 1..Len(cacheRun.blob) :
          /\ Len(cacheRun.blob[i]) < Len(FormKeys)
          /\ cacheRun.blob[i][4].key = "category"

\* ------------------------------------------------------------------------
\* Termination of the handlers, every remote call returning
\* ------------------------------------------------------------------------

\* the steps that are not the user's: the table answers a call (with data or
\* with an error) and the handler runs on to its next await or to its end
Returns ==
    \/ BootServe \/ BootFail \/ BootDeliver \/ BootCatch
    \/ ToggleOk \/ ToggleFail
    \/ DeleteOk \/ DeleteFail
    \/ SaveFail
    \/ SaveInsertSeriesOk \/ SaveInsertSingleOk
    \/ SaveDeleteFutureOk \/ SaveUpdateSimpleOk
    \/ SaveUpdateCurrentOk \/ SaveDeleteTailOk \/ SaveInsertTailOk
    \/ SaveFetchServe \/ SaveFetchFail \/ SaveFetchDeliver \/ SaveFetchCatch

\* the program after construction, the user's last operation still to come
InitLive ==
    /\ zone = "east" /\ cacheRun = NoCacheRun
    /\ configured = TRUE
    /\ remote \in InitialStores
    /\ nextId = MaxRowId(remote) + 1
    /\ nextSeries = MintedSeries
    /\ bills = <<>>
    /\ cache \in {NoCache} \cup
                 {CacheOf(FetchedBills(d)) : d \in SortedSeqs(remote)}
    /\ loading = TRUE
    /\ isSyncing = FALSE
    /\ syncSuccess = FALSE
    /\ error = ""
    /\ alerts = 0
    /\ mounted = FALSE
    /\ boot = NoCall
    /\ toggle = NoCall
    /\ del = NoCall
    /\ save = NoCall
    /\ formError = ""
    /\ ops = MaxOps - 1
    /\ failures = 0
    /\ last = NoOp
    /\ InitExpNone /\ InitFormNone

\* every remote call eventually returns, and the promise's continuation runs
SpecLive == InitLive /\ [][Next]_vars /\ WF_vars(Returns)

\* fetchBills is running, on its own or inside handleSaveBill
Fetching ==
    boot.pc # "idle" \/ save.pc \in {"select", "reply", "throw"}

\* C19: every fetchBills and every handleSaveBill that was started ends, and
\* at its end isSyncing is false; at the end of a fetchBills loading is
\* false as well.
C19_HandlersEndInteractive ==
    /\ (boot.pc # "idle") ~> (boot.pc = "idle" /\ ~isSyncing /\ ~loading)
    /\ (save.pc # "idle") ~> (save.pc = "idle" /\ ~isSyncing)
    /\ [][/\ (boot.pc # "idle" /\ boot'.pc = "idle")
                => (~isSyncing' /\ ~loading')
          /\ (save.pc # "idle" /\ save'.pc = "idle") => ~isSyncing'
          /\ (Fetching /\ ~Fetching') => ~loading']_vars

\* a regeneration has returned after its re-fetch failed, and the interface
\* is interactive
C19_Witness ==
    /\ SaveReturned /\ last.route = "regenerate" /\ last.st = "unfetched"
    /\ ~isSyncing /\ ~loading

\* ------------------------------------------------------------------------
\* Edits: what they leave in the table and in the mirror
\* ------------------------------------------------------------------------

\* the row with the given id holds the fields the form submitted
RowHoldsSubmitted(r, billData) ==
    /\ r.id = billData.id
    /\ r.name = billData.name /\ r.amount = billData.amount
    /\ r.due_date = billData.dueDate /\ r.category = billData.category

\* C23: after a confirmed turn-off whose remote calls all succeed, the edited
\* bill's row is still in the table, not recurring, without series id and
\* with the submitted fields, whatever the submitted due date.
C23_TurnOffKeepsEditedBill ==
    (TurnOffConfirmedDone /\ last.billData.id \in Ids(last.pre.remote)) =>
        \E r \in remote :
            /\ RowHoldsSubmitted(r, last.billData)
            /\ ~r.is_recurring /\ r.series_id = Null

\* C24: in the collection and in the cache every bill with a series id is
\* recurring; after a turn-off whose prompt was declined the edited bill has
\* no series id in the collection, as in the table.
C24_MirrorSeriesBillsAreRecurring ==
    /\ \A i \in 1..Len(bills) : HasSeries(bills[i]) => bills[i].isRecurring
    /\ cache.present =>
          LET cached == Parse(cache.blob)
          IN  \A i \in 1..Len(cached) :
                 HasSeries(cached[i]) => cached[i].isRecurring

\* the remote calls of the regeneration branch, in the order of the code
RegenerationCalls == <<"updateCurrent", "deleteTail", "insertTail">>

\* a call of the regeneration branch is answered in this step
RegenerationAnswered(n) == save.pc = RegenerationCalls[n] /\ save' # save

\* an error answer: the handler ends and the table is what it was
AnsweredWithError == save'.pc = "idle" /\ remote' = remote

\* C25: the regeneration issues update, delete and insert in this order, each
\* only after the one before succeeded; the delete never removes the edited
\* bill's own row, whatever its new due date.
C25_RegenerationOrder ==
    [][/\ (save.pc = "idle" /\ save'.pc \in {"deleteTail", "insertTail"})
            => FALSE
       /\ RegenerationAnswered(1) =>
             \/ AnsweredWithError
             \/ /\ save'.pc = "deleteTail"
                /\ Ids(remote') = Ids(remote)
                /\ \A r \in remote : r.id # save.billData.id => r \in remote'
                /\ \A r \in remote' :
                      r.id = save.billData.id
                         => RowHoldsSubmitted(r, save.billData)
       /\ RegenerationAnswered(2) =>
             \/ AnsweredWithError
             \/ /\ save'.pc = "insertTail"
                /\ remote' \subseteq remote
                /\ \A r \in remote : r.id = save.billData.id => r \in remote'
                /\ \A r \in remote \ remote' :
                      /\ r.series_id = save.originalBill.seriesId
                      /\ r.due_date > save.billData.dueDate
       /\ RegenerationAnswered(3) =>
             \/ AnsweredWithError
             \/ /\ save'.pc = "select"
                /\ remote \subseteq remote' /\ remote' # remote
      ]_vars

\* a regeneration ran through on a bill whose date was moved earlier: its
\* row is in the table with the new date, and later siblings were deleted
C25_Witness ==
    /\ RegenerationDone
    /\ last.billData.dueDate < last.originalBill.dueDate
    /\ \E r \in remote : RowHoldsSubmitted(r, last.billData)
    /\ \E r \in last.pre.remote :
          r.id # last.billData.id /\ r.id \notin Ids(remote)

\* the last operation was an edit, through the form, of a recurring bill of
\* a series in which the frequency was changed and name and amount were not,
\* and its remote calls succeeded
OnlyFrequencyChanged ==
    /\ LastSucceeded /\ last.kind = "submit"
    /\ last.initialBill.id # NoId
    /\ last.initialBill.isRecurring /\ HasSeries(last.initialBill)
    /\ last.f.isRecurring
    /\ last.f.name = last.initialBill.name
    /\ ParseFloat(last.f.amount) = last.initialBill.amount
    /\ last.f.frequency # last.initialBill.frequency

\* C26: when only the frequency of a recurring bill of a series is changed
\* in the edit form, the future occurrences of the series in the table are
\* regenerated and spaced by the new frequency.
C26_FrequencyChangeRegenerates ==
    OnlyFrequencyChanged =>
        \A r \in remote :
            (/\ r.series_id = last.initialBill.seriesId
             /\ r.due_date > last.billData.dueDate)
            => /\ r.frequency = last.f.frequency
               /\ (MonthIndex(r.due_date) - MonthIndex(last.billData.dueDate))
                     % last.f.frequency = 0

\* the collections differ in nothing but the isPaid of the bill with this id
OnlyPaidDiffers(before, after, id) ==
    /\ Len(after) = Len(before)
    /\ \A i \in 1..Len(before) :
          IF before[i].id = id
          THEN after[i] = [before[i] EXCEPT !.isPaid = after[i].isPaid]
          ELSE after[i] = before[i]

\* the tables differ in nothing but the is_paid of the row with this id
OnlyRowPaidDiffers(before, after, id) ==
    /\ Ids(after) = Ids(before)
    /\ \A r \in before :
          IF r.id = id
          THEN \E q \in after : q = [r EXCEPT !.is_paid = q.is_paid]
          ELSE r \in after

\* the collection after is the collection before without the bill with this
\* id, the other bills in their order
OnlyBillRemoved(before, after, id) ==
    /\ \A i \in 1..Len(after) : after[i].id # id
    /\ \E gap \in 1..Len(before) :
          /\ before[gap].id = id
          /\ Len(after) = Len(before) - 1
          /\ \A i \in 1..Len(after) :
                after[i] = IF i < gap THEN before[i] ELSE before[i + 1]

\* a call of toggleBillPaid or handleDeleteBill is answered in this step,
\* with an error when the step counts a failure
Answered(call, call2) == call.pc # "idle" /\ call2.pc = "idle"

WithError == failures' # failures

\* the step is a toggle for an id the collection does not hold
AbsentToggled ==
    last' # last /\ last'.kind = "toggle" /\ last'.st = "absent"

\* C29: a toggle changes nothing but isPaid of the bill with its id, in
\* collection, cache and table; a delete removes nothing but the bill with
\* its id; a toggle for an id the collection does not hold changes nothing
\* and issues no remote call.
C29_ToggleAndDeleteTouchOneBill ==
    [][/\ (toggle.pc = "idle" /\ toggle'.pc = "update") =>
             /\ OnlyPaidDiffers(bills, bills', toggle'.id)
             /\ FindBill(bills', toggle'.id).isPaid
                   # FindBill(bills, toggle'.id).isPaid
             /\ cache' = CacheOf(bills') /\ remote' = remote
       /\ (Answered(toggle, toggle') /\ ~WithError) =>
             /\ OnlyRowPaidDiffers(remote, remote', toggle.id)
             /\ \A r \in remote' :
                   r.id = toggle.id => r.is_paid = toggle.newStatus
             /\ bills' = bills /\ cache' = cache
       /\ (Answered(toggle, toggle') /\ WithError) =>
             /\ OnlyPaidDiffers(bills, bills', toggle.id)
             /\ cache' = CacheOf(bills') /\ remote' = remote
       /\ (del.pc = "idle" /\ del'.pc = "delete") =>
             /\ OnlyBillRemoved(bills, bills', del'.id)
             /\ cache' = CacheOf(bills') /\ remote' = remote
       /\ (Answered(del, del') /\ ~WithError) =>
             /\ remote' = {r \in remote : r.id # del.id}
             /\ bills' = bills /\ cache' = cache
       /\ (Answered(del, del') /\ WithError) =>
             /\ OnlyBillRemoved(bills', bills, del.id)
             /\ cache' = CacheOf(bills') /\ remote' = remote
       /\ AbsentToggled =>
             UNCHANGED <<bills, cache, remote, alerts, syncSuccess, isSyncing,
                         boot, toggle, del, save>>
      ]_vars

\* a bill of a series was toggled and the update succeeded: its siblings are
\* in collection and table as they were
C29_Witness ==
    /\ Idle /\ last.kind = "toggle" /\ last.st = "ok"
    /\ HasSeries(FindBill(bills, last.id))
    /\ \E i \in 1..Len(bills) :
          /\ bills[i].id # last.id
          /\ bills[i].seriesId = FindBill(bills, last.id).seriesId
          /\ bills[i].isPaid # FindBill(bills, last.id).isPaid
    /\ \E r \in remote : r.id = last.id /\ r.is_paid

\* the update of an edit that is neither a confirmed turn-off nor a
\* regeneration is answered without error in this step
SimpleEditAnswered ==
    /\ save.pc = "updateSimple" /\ save'.pc = "idle" /\ ~WithError
    /\ save.route \in {"simple", "turnOffDeclined"}

\* exactly one entry of the collection, the one with this id, is replaced by
\* the submitted bill
OneEntryReplaced(before, after, billData) ==
    /\ Len(after) = Len(before)
    /\ Cardinality({i \in 1..Len(before) : before[i].id = billData.id}) = 1
    /\ \A i \in 1..Len(before) :
          IF before[i].id = billData.id
          THEN BillView(after[i]) = BillView(billData)
          ELSE after[i] = before[i]

\* exactly one row of the table, the one with this id, is changed, and holds
\* the submitted fields
OneRowChanged(before, after, billData) ==
    /\ Ids(after) = Ids(before)
    /\ \A r \in before : r.id # billData.id => r \in after
    /\ \E r \in before : r.id = billData.id
    /\ \A r \in after :
          r.id = billData.id => /\ RowHoldsSubmitted(r, billData)
                                /\ r.is_recurring = billData.isRecurring

\* C30: an edit of a non-recurring bill, of a recurring bill without
\* updateFuture, or a turn-off whose prompt is declined changes exactly one
\* row of the table, the edited bill's, and replaces exactly one entry of
\* the mirror; siblings and other bills are untouched in both.
C30_SimpleEditTouchesOneBill ==
    [][SimpleEditAnswered =>
          /\ OneRowChanged(remote, remote', save.billData)
          /\ OneEntryReplaced(bills, bills', save.billData)
          /\ cache' = CacheOf(bills')
      ]_vars

\* ------------------------------------------------------------------------
\* Handlers in flight together: the list is on screen whenever loading is
\* false, so the user can start an operation while another one, or a
\* background fetch, awaits its remote call
\* ------------------------------------------------------------------------

\* the list and the add button are rendered
ListOnScreen == mounted /\ ~loading

\* the fields of a form submission that adds a single bill, or changes the
\* amount of the bill the form was opened on
RaceInputs(initialBill) ==
    IF initialBill.id = NoId
    THEN {[name |-> <<"g">>, amount |-> "20", date |-> 20240705,
           category |-> OTHER_CATEGORY, isRecurring |-> FALSE,
           frequency |-> MONTHLY, isPaid |-> FormIsPaid(initialBill)]}
    ELSE {[name |-> initialBill.name, amount |-> "20",
           date |-> initialBill.dueDate, category |-> initialBill.category,
           isRecurring |-> initialBill.isRecurring,
           frequency |-> OrElse(initialBill.frequency, MONTHLY),
           isPaid |-> FormIsPaid(initialBill)]}

RaceToggle ==
    ListOnScreen /\ \E i \in 1..Len(bills) : ToggleStart(bills[i].id)

RaceDelete ==
    ListOnScreen /\ \E i \in 1..Len(bills) : DeleteStart(bills[i].id)

\* the prompt about the future bills of the series is answered no
RaceSubmit ==
    /\ ListOnScreen
    /\ \E initialBill \in {NoBill} \cup Editable :
          \E f \in RaceInputs(initialBill) :
              SubmitSave(initialBill, f, FALSE, FALSE)

NextRace ==
    \/ Mount
    \/ BootServe
    \/ BootFail
    \/ BootDeliver
    \/ BootCatch
    \/ RaceToggle
    \/ ToggleOk
    \/ ToggleFail
    \/ RaceDelete
    \/ DeleteOk
    \/ DeleteFail
    \/ RaceSubmit
    \/ SaveFail
    \/ SaveInsertSingleOk
    \/ SaveUpdateSimpleOk

SpecRace == Init /\ [][NextRace]_vars

\* an operation is answered in this step and its handler ends
ToggleEnds == toggle.pc = "update" /\ toggle'.pc = "idle"

DeleteEnds == del.pc = "delete" /\ del'.pc = "idle"

SaveEnds(call) == save.pc = call /\ save'.pc = "idle"

\* since the handler took its copy of the collection, another operation has
\* changed a bill other than the handler's
OthersChangedSince(closure, id) ==
    WithoutId(bills, id) # WithoutId(closure, id)

\* the step leaves every bill but the one with this id as it is
KeepsOthers(id) == WithoutId(bills', id) = WithoutId(bills, id)

\* C27: when operation B on another bill has changed the mirror while
\* operation A awaited its remote call, A's later write to the mirror (the
\* rollback of a failed toggle or delete, the append after a single insert,
\* the patch after a simple update) keeps B's change.
C27_NoLostUpdate ==
    [][/\ (ToggleEnds /\ OthersChangedSince(toggle.closure, toggle.id))
            => KeepsOthers(toggle.id)
       /\ (DeleteEnds /\ OthersChangedSince(del.previousBills, del.id))
            => KeepsOthers(del.id)
       /\ (SaveEnds("updateSimple")
             /\ OthersChangedSince(save.closure, save.billData.id))
            => KeepsOthers(save.billData.id)
       /\ (SaveEnds("insertSingle") /\ bills # save.closure /\ bills' # bills)
            => /\ Len(bills') = Len(bills) + 1
               /\ SubSeq(bills', 1, Len(bills)) = bills
      ]_vars

\* the toggle was the user's only operation; it and the startup fetch have
\* both ended without an error
ToggleAndFetchDone ==
    /\ mounted /\ Idle /\ ops = 1 /\ error = "" /\ failures = 0
    /\ last.kind = "toggle" /\ last.st = "ok"

\* C28: once a fetch and a toggle that overlapped have both ended
\* successfully, the toggled bill's isPaid in collection and cache is the
\* one in the table.
C28_FetchKeepsToggle ==
    ToggleAndFetchDone =>
        /\ cache = CacheOf(bills)
        /\ \A r \in remote :
              r.id = last.id
                 => /\ HasId(bills, last.id)
                    /\ FindBill(bills, last.id).isPaid = r.is_paid

\* ------------------------------------------------------------------------
\* A table with bills from before series ids: a recurring bill that has no
\* series_id, beside the series and a single bill
\* ------------------------------------------------------------------------

LegacyRows ==
    {[id |-> 4, name |-> <<"N">>, amount |-> 10, due_date |-> 20240405,
      is_paid |-> FALSE, is_recurring |-> TRUE, frequency |-> MONTHLY,
      category |-> OTHER_CATEGORY, series_id |-> Null],
     [id |-> 5, name |-> <<"g">>, amount |-> 10, due_date |-> 20250205,
      is_paid |-> FALSE, is_recurring |-> FALSE, frequency |-> Null,
      category |-> OTHER_CATEGORY, series_id |-> Null]}

LegacyStore == EarlierSeries \cup LegacyRows

\* the program after construction on that table, the user's last operation
\* still to come
InitLegacy ==
    /\ zone = "east" /\ cacheRun = NoCacheRun
    /\ configured = TRUE
    /\ remote = LegacyStore
    /\ nextId = MaxRowId(remote) + 1
    /\ nextSeries = MintedSeries
    /\ bills = <<>>
    /\ cache \in {NoCache} \cup
                 {CacheOf(FetchedBills(d)) : d \in SortedSeqs(remote)}
    /\ loading = TRUE
    /\ isSyncing = FALSE
    /\ syncSuccess = FALSE
    /\ error = ""
    /\ alerts = 0
    /\ mounted = FALSE
    /\ boot = NoCall
    /\ toggle = NoCall
    /\ del = NoCall
    /\ save = NoCall
    /\ formError = ""
    /\ ops = MaxOps - 1
    /\ failures = 0
    /\ last = NoOp
    /\ InitExpNone /\ InitFormNone

SpecLegacy == InitLegacy /\ [][Next]_vars

\* the delete of a confirmed turn-off on a bill without series id is
\* answered without error in this step
LegacyDeleteAnswered ==
    /\ save.pc = "deleteFuture" /\ save'.pc = "updateSimple"
    /\ ~HasSeries(save.originalBill)

\* C31: the confirmed turn-off of a recurring bill without series id deletes
\* exactly the rows whose name and amount are the bill's before the edit and
\* whose due date is strictly after the bill's new due date, whatever their
\* recurring flag or series id, and no other row.
C31_LegacyTurnOffDeletesByNameAndAmount ==
    [][LegacyDeleteAnswered =>
          /\ remote' \subseteq remote
          /\ remote \ remote' =
                {r \in remote : /\ r.name = save.originalBill.name
                                /\ r.amount = save.originalBill.amount
                                /\ r.due_date > save.billData.dueDate}
      ]_vars

\* a confirmed turn-off on the bill without series id has ended, and rows of
\* a series with its name and amount are gone from the table
C31_Witness ==
    /\ Idle /\ last.kind = "submit" /\ last.st = "ok"
    /\ last.route = "turnOffConfirmed" /\ ~HasSeries(last.originalBill)
    /\ \E r \in last.pre.remote :
          r.id \notin Ids(remote) /\ r.series_id # Null

\* a bill of the collection that was not recurring is submitted as recurring
BecomesRecurring(call) ==
    /\ call.route \notin {"createSeries", "createSingle"}
    /\ ~call.originalBill.isRecurring /\ call.billData.isRecurring

\* the recurring bills of the collection that have no series id
Unlinked == {b \in Editable : b.isRecurring /\ ~HasSeries(b)}

C33_SyncSuccessMeansEveryCallSucceeded ==
    (SaveReturned /\ syncSuccess) => last.st = "ok"


\* ------------------------------------------------------------------------
\* Collection and cache, written together
\* ------------------------------------------------------------------------

\* the collections as and bs hold the same bills in the same order: every
\* property of every bill has the same value, a key the text does not hold
\* being undefined
SameCollection(as, bs) ==
    /\ Len(as) = Len(bs)
    /\ \A i \in 1..Len(as) : \A j \in 1..Len(RowKeys) :
          FieldOf(as[i], RowKeys[j]) = FieldOf(bs[i], RowKeys[j])

\* the text in the cache reads as the collection in memory
CacheReadsAsMirror(c, bs) == c.present /\ SameCollection(Parse(c.blob), bs)

\* C34: once the startup effect has run and the cache holds a text, the
\* collection in the cache equals the collection in memory after every step
\* of every handler, whatever else is in flight; every step that writes one
\* of the two leaves the same collection in both.
C34_CacheEqualsMirror ==
    /\ []((mounted /\ cache.present) => CacheReadsAsMirror(cache, bills))
    /\ [][(cache' # cache \/ bills' # bills)
              => CacheReadsAsMirror(cache', bills')]_vars

\* a fetch has overwritten the collection a toggle, then failed, had changed:
\* three writes of handlers in flight together, the rollback last
C34_Witness ==
    /\ mounted /\ cache.present /\ Idle
    /\ last.kind = "toggle" /\ last.st = "failed"
    /\ bills # <<>> /\ bills # last.pre.bills


\* ------------------------------------------------------------------------
\* The ids of the bills of the mirror
\* ------------------------------------------------------------------------

\* every bill of bs has an id the table has given out, and no two bills of
\* bs have the same id
IdsFromTable(bs) ==
    /\ \A i \in 1..Len(bs) : bs[i].id # NoId /\ bs[i].id \in 1..(nextId - 1)
    /\ \A i, j \in 1..Len(bs) : bs[i].id = bs[j].id => i = j

\* C35: every bill of the collection and of the cache has a non-empty id
\* that the table assigned, and no two of them share an id; the bill the form
\* builds with the id '' for a new bill is never stored.
C35_MirrorIdsAreRemoteAndUnique ==
    /\ IdsFromTable(bills)
    /\ cache.present => IdsFromTable(Parse(cache.blob))

\* a bill built by the form with the id '' has been inserted and stands in a
\* collection of several bills
C35_Witness ==
    /\ SaveReturned /\ last.route = "createSingle" /\ last.st = "ok"
    /\ last.billData.id = NoId
    /\ Len(bills) >= 2 /\ cache = CacheOf(bills)


\* ------------------------------------------------------------------------
\* The sync indicator
\* ------------------------------------------------------------------------

\* a fetchBills or a handleSaveBill invocation has not yet resumed from the
\* await of a remote call
FetchOrSaveAwaits == boot.pc # "idle" \/ save.pc # "idle"

\* C36: isSyncing is true at every moment at which a fetchBills or a
\* handleSaveBill invocation awaits a remote call, also when a fetch and a
\* save are in flight together and when handleSaveBill calls fetchBills.
C36_SyncingWhileAwaiting == FetchOrSaveAwaits => isSyncing


\* ------------------------------------------------------------------------
\* The application with a client module that is not configured: the
\* environment-reading client exports
\*   isSupabaseConfigured = !!supabaseUrl && !!supabaseAnonKey
\* which is false when the keys are missing
\* ------------------------------------------------------------------------

\* toggleBillPaid(id):  if (!isSupabaseConfigured) return
ToggleUnconfigured(id) ==
    /\ CanAct /\ toggle.pc = "idle"
    /\ ~isSupabaseConfigured
    /\ ops' = ops + 1
    /\ last' = [kind |-> "toggle", st |-> "unconfigured", id |-> id,
                pre |-> Snapshot]
    /\ UNCHANGED <<remote, nextId, nextSeries, bills, cache, loading,
                   isSyncing, syncSuccess, error, alerts, mounted, boot,
                   toggle, del, save, formError>>
    /\ UNCHANGED <<failures, expVars, formVars, envVars, cacheVars>>

\* handleDeleteBill(id):  if (!isSupabaseConfigured) return
DeleteUnconfigured(id) ==
    /\ CanAct /\ del.pc = "idle"
    /\ ~isSupabaseConfigured
    /\ ops' = ops + 1
    /\ last' = [kind |-> "delete", st |-> "unconfigured", id |-> id,
                pre |-> Snapshot]
    /\ UNCHANGED <<remote, nextId, nextSeries, bills, cache, loading,
                   isSyncing, syncSuccess, error, alerts, mounted, boot,
                   toggle, del, save, formError>>
    /\ UNCHANGED <<failures, expVars, formVars, envVars, cacheVars>>

\* handleSubmit accepts the submission and calls onSave; handleSaveBill:
\* if (!isSupabaseConfigured) { alert("..."); return; }
SubmitUnconfigured(initialBill, f) ==
    /\ CanAct /\ save.pc = "idle"
    /\ SubmitOutcome(bills, initialBill, f) = "save"
    /\ ~isSupabaseConfigured
    /\ alerts' = alerts + 1
    /\ formError' = ""
    /\ ops' = ops + 1
    /\ last' = [kind |-> "submit", st |-> "unconfigured", route |-> "none",
                initialBill |-> initialBill, f |-> f,
                billData |-> BillData(initialBill, f),
                pre |-> Snapshot]
    /\ UNCHANGED <<remote, nextId, nextSeries, bills, cache, loading,
                   isSyncing, syncSuccess, error, mounted, boot, toggle, del,
                   save>>
    /\ UNCHANGED <<failures, expVars, formVars, envVars, cacheVars>>

UserToggleUnconfigured ==
    Idle /\ \E i \in 1..Len(bills) : ToggleUnconfigured(bills[i].id)

UserDeleteUnconfigured ==
    Idle /\ \E i \in 1..Len(bills) : DeleteUnconfigured(bills[i].id)

UserSubmitUnconfigured ==
    /\ Idle
    /\ \E initialBill \in {NoBill} \cup Editable :
         \E f \in {g \in FormInputs(initialBill) :
                      SubmitOutcome(bills, initialBill, g) = "save"} :
            SubmitUnconfigured(initialBill, f)

InitUnconfigured ==
    /\ zone = "east" /\ cacheRun = NoCacheRun
    /\ configured = FALSE
    /\ InitSys /\ InitExpNone /\ InitFormNone

NextUnconfigured ==
    \/ Mount
    \/ UserRetry
    \/ BootCatch
    \/ UserToggleUnconfigured
    \/ UserDeleteUnconfigured
    \/ UserSubmitRejected
    \/ UserSubmitUnconfigured

SpecUnconfigured == InitUnconfigured /\ [][NextUnconfigured]_vars

\* no remote call is in flight: no handler awaits one, and fetchBills, if it
\* has not ended, has thrown its missing-configuration error
NoRemoteCall ==
    /\ toggle.pc = "idle" /\ del.pc = "idle" /\ save.pc = "idle"
    /\ boot.pc \in {"idle", "throw"}
    /\ boot.pc = "throw" => boot.kind = "MISSING_CONFIG"

\* a handler that tests the flag is called in this step
GuardedCall(kind) ==
    last' # last /\ last'.kind = kind /\ last'.st = "unconfigured"

\* fetchBills ends in this step
FetchEnds == boot.pc # "idle" /\ boot'.pc = "idle"

\* C37: when the remote store is not configured, toggleBillPaid,
\* handleDeleteBill and handleSaveBill issue no remote call and leave
\* collection and cache as they are, handleSaveBill raising an alert; and
\* fetchBills ends with the missing-configuration error and leaves
\* collection and cache as they are.
C37_UnconfiguredHandlersChangeNothing ==
    /\ [](~isSupabaseConfigured => NoRemoteCall)
    /\ [][~isSupabaseConfigured =>
            /\ remote' = remote /\ nextId' = nextId
            /\ cache' = cache
            /\ mounted => bills' = bills
            /\ GuardedCall("toggle") => alerts' = alerts
            /\ GuardedCall("delete") => alerts' = alerts
            /\ GuardedCall("submit") => alerts' = alerts + 1
            /\ FetchEnds => error' = MsgConfig /\ ~syncSuccess'
         ]_vars

\* the three handlers have returned at their guard on a collection loaded
\* from the cache, after fetchBills has failed
C37_Witness ==
    /\ ~isSupabaseConfigured /\ mounted /\ Idle
    /\ bills # <<>> /\ error = MsgConfig
    /\ last.kind = "submit" /\ last.st = "unconfigured"
    /\ alerts = 1 /\ ops = 2


\* ------------------------------------------------------------------------
\* The wire translation, there and back
\* ------------------------------------------------------------------------

\* the bill fetchBills builds from the row the table stores under id for the
\* payload of the bill b
WireBack(b, id) == FormatBill(StoredRow(preparePayload(b), id))

\* the bills handleSaveBill translates to a payload, and the bills of the
\* collection
WireBills ==
    Editable \cup (IF save.pc \in MutationCalls THEN {save.billData} ELSE {})

\* the bill c has the properties of the bill b, a property b does not have
\* (undefined) being null in c
SameOverWire(b, c) ==
    /\ c.name = b.name /\ c.amount = b.amount /\ c.dueDate = b.dueDate
    /\ c.isPaid = b.isPaid /\ c.isRecurring = b.isRecurring
    /\ c.category = b.category
    /\ c.frequency = OrElse(b.frequency, Null)
    /\ c.seriesId = OrElse(b.seriesId, Null)
    /\ HasSeries(c) = HasSeries(b)
    /\ \A j \in 1..Len(b.keys) : \E k \in 1..Len(c.keys) : c.keys[k] = b.keys[j]

====
